---- MODULE Spec2Model ----
(***************************************************************************)
(* Juniper Square CSV -> Affinity status sync (api/upload.js).             *)
(*                                                                         *)
(* The model follows one upload request through the handler: the CSV is    *)
(* parsed into records, the status field and its options are read, the     *)
(* list entries are read in bulk, and then every record is matched,        *)
(* its stage derived, passed through the write-safety gate and, when the   *)
(* gate lets it through, written to the registry with updateStatus.        *)
(* Labels are real strings: lower-casing, trimming, substring tests and    *)
(* the bigram similarity of the string-similarity package are computed     *)
(* character by character.                                                 *)
(***************************************************************************)
EXTENDS Integers, Sequences, FiniteSets, TLC

(***************************************************************************)
(* String primitives of JavaScript used by the handler.                    *)
(***************************************************************************)
UPPER == "ABCDEFGHIJKLMNOPQRSTUVWXYZ"
LOWER == "abcdefghijklmnopqrstuvwxyz"

charAt(s, i) == SubSeq(s, i, i)

\* upper-case letter -> lower-case letter
LowerTable ==
    [c \in {charAt(UPPER, k) : k \in 1..Len(UPPER)} |->
        charAt(LOWER, CHOOSE k \in 1..Len(UPPER) : charAt(UPPER, k) = c)]

toLowerChar(c) == IF c \in DOMAIN LowerTable THEN LowerTable[c] ELSE c

RECURSIVE toLowerCase(_)
toLowerCase(s) ==
    IF s = "" THEN ""
    ELSE toLowerChar(charAt(s, 1)) \o toLowerCase(SubSeq(s, 2, Len(s)))

RECURSIVE trimStart(_)
trimStart(s) ==
    IF s # "" /\ charAt(s, 1) = " " THEN trimStart(SubSeq(s, 2, Len(s))) ELSE s

RECURSIVE trimEnd(_)
trimEnd(s) ==
    IF s # "" /\ charAt(s, Len(s)) = " "
    THEN trimEnd(SubSeq(s, 1, Len(s) - 1)) ELSE s

trim(s) == trimEnd(trimStart(s))

\* String.prototype.includes
includes(s, sub) ==
    \E i \in 1..(Len(s) - Len(sub) + 1) : SubSeq(s, i, i + Len(sub) - 1) = sub

RECURSIVE removeWhitespace(_)
removeWhitespace(s) ==
    IF s = "" THEN ""
    ELSE (IF charAt(s, 1) = " " THEN "" ELSE charAt(s, 1))
         \o removeWhitespace(SubSeq(s, 2, Len(s)))

(***************************************************************************)
(* string-similarity: compareTwoStrings is the Dice coefficient over the   *)
(* character bigrams of the two strings with whitespace removed.  A rating *)
(* is kept as the exact fraction num/den.                                  *)
(***************************************************************************)
RECURSIVE intersectionSize(_, _, _)
intersectionSize(second, i, firstBigrams) ==
    IF i > Len(second) - 1 THEN 0
    ELSE LET bigram == SubSeq(second, i, i + 1)
             count  == IF bigram \in DOMAIN firstBigrams
                       THEN firstBigrams[bigram] ELSE 0
         IN  IF count > 0
             THEN 1 + intersectionSize(second, i + 1,
                          [firstBigrams EXCEPT ![bigram] = count - 1])
             ELSE intersectionSize(second, i + 1, firstBigrams)

compareTwoStrings(a, b) ==
    LET first  == removeWhitespace(a)
        second == removeWhitespace(b)
        pos    == 1..(Len(first) - 1)
        firstBigrams ==
            [bg \in {SubSeq(first, i, i + 1) : i \in pos} |->
                Cardinality({i \in pos : SubSeq(first, i, i + 1) = bg})]
    IN  IF first = second THEN [num |-> 1, den |-> 1]
        ELSE IF Len(first) < 2 \/ Len(second) < 2 THEN [num |-> 0, den |-> 1]
        ELSE [num |-> 2 * intersectionSize(second, 1, firstBigrams),
              den |-> Len(first) + Len(second) - 2]

ratingGreater(r1, r2) == r1.num * r2.den > r2.num * r1.den

\* rating >= pct / 100
ratingAtLeast(r, pct) == r.num * 100 >= pct * r.den

\* findBestMatch: the first index holding the greatest rating
RECURSIVE bestMatchIndex(_, _, _, _)
bestMatchIndex(query, candidates, i, best) ==
    IF i > Len(candidates) THEN best
    ELSE IF ratingGreater(compareTwoStrings(query, candidates[i]),
                          compareTwoStrings(query, candidates[best]))
         THEN bestMatchIndex(query, candidates, i + 1, i)
         ELSE bestMatchIndex(query, candidates, i + 1, best)

\* safeBestMatch(main, arr, minScore): the best target, or "" for null
safeBestMatch(main, arr, minPct) ==
    LET candidates == SelectSeq(arr, LAMBDA s : s # "")
    IN  IF main = "" \/ Len(candidates) = 0 THEN ""
        ELSE LET b == candidates[bestMatchIndex(main, candidates, 1, 1)]
             IN  IF ratingAtLeast(compareTwoStrings(main, b), minPct)
                 THEN b ELSE ""

(***************************************************************************)
(* Stage vocabulary and configuration.                                     *)
(***************************************************************************)
STATUS_ORDER == <<
    "Target Identified",
    "Intro/First Meeting",
    "Early Dialogue (Post-Intro)",
    "Deck & PPM Sent",
    "Circle Back after First Close",
    "Invited to Data Room",
    "Data Room Accessed / NDA Executed",
    "Verbal Commit",
    "Ready for Sub Docs",
    "Sub Docs Sent",
    "Sub Docs Signed",
    "Committed" >>

\* new Map(STATUS_ORDER.map((s, i) => [s.toLowerCase(), i])) and its get:
\* the 0-based index of the stage whose lower-cased label is key; -1 stands
\* for undefined (the handler reads it as `?? -1`).
STATUS_KEYS == [i \in 1..Len(STATUS_ORDER) |-> toLowerCase(STATUS_ORDER[i])]

STATUS_INDEX(key) ==
    IF \E i \in 1..Len(STATUS_KEYS) : STATUS_KEYS[i] = key
    THEN (CHOOSE i \in 1..Len(STATUS_KEYS) : STATUS_KEYS[i] = key) - 1
    ELSE -1

DEFAULT_MIN_STATUS_LABEL == "Invited to Data Room"

\* minIdx of the handler for a configured MIN_STATUS_LABEL
minIdxOf(minLabel) == STATUS_INDEX(toLowerCase(minLabel))

\* variant: the label is compared as it is stored
isPassedLabel_asStored(label) ==
    label \in {"passed", "declined", "no go", "no-go", "nog o"}

isPassedLabel(label) ==
    LET l == toLowerCase(trim(label))
    IN  l \in {"passed", "declined", "no go", "no-go", "nog o"}

(***************************************************************************)
(* The registry's dropdown options and the label -> option id map.         *)
(* An option id is the option's position in the registry's option list;    *)
(* 0 stands for null / no option.                                          *)
(***************************************************************************)
RECURSIVE mapSet(_, _, _)
mapSet(m, key, val) ==
    IF m = << >> THEN << [label |-> key, id |-> val] >>
    ELSE IF Head(m).label = key
         THEN << [label |-> key, id |-> val] >> \o Tail(m)
         ELSE << Head(m) >> \o mapSet(Tail(m), key, val)

\* new Map(options.map(o => [String(o.name).toLowerCase(), o.id])):
\* keys in first-insertion order, a repeated key keeps the last id
RECURSIVE labelToIdFrom(_, _, _)
labelToIdFrom(options, i, m) ==
    IF i > Len(options) THEN m
    ELSE labelToIdFrom(options, i + 1, mapSet(m, toLowerCase(options[i]), i))

fetchStatusFieldAndOptions(options) == labelToIdFrom(options, 1, << >>)

mapHas(m, key) == \E i \in 1..Len(m) : m[i].label = key
mapGet(m, key) == m[CHOOSE i \in 1..Len(m) : m[i].label = key].id
mapKeys(m) == [i \in 1..Len(m) |-> m[i].label]

\* the text the registry reports for an option id
optionText(options, id) == IF id \in 1..Len(options) THEN options[id] ELSE ""

\* STATUS_LABEL_ALIASES_JSON as a function from lower-cased label to label
applyAlias(targetLabel, aliases) ==
    LET lower == toLowerCase(targetLabel)
    IN  IF lower \in DOMAIN aliases /\ aliases[lower] # ""
        THEN aliases[lower] ELSE targetLabel

(***************************************************************************)
(* resolveStatusOptionId: alias, direct lookup, keyword families, fuzzy.   *)
(***************************************************************************)
hasAll(l, pats) == \A i \in 1..Len(pats) : includes(l, pats[i])

\* labels.find(l => hasAll(l, pats)), "" for undefined
pickBy(labels, pats) ==
    IF \E i \in 1..Len(labels) : hasAll(labels[i], pats)
    THEN labels[CHOOSE i \in 1..Len(labels) :
                  /\ hasAll(labels[i], pats)
                  /\ \A j \in 1..(i - 1) : ~hasAll(labels[j], pats)]
    ELSE ""

\* a || b || c over the picks of one keyword family
RECURSIVE firstPick(_, _)
firstPick(labels, picks) ==
    IF picks = << >> THEN ""
    ELSE IF pickBy(labels, Head(picks)) # "" THEN pickBy(labels, Head(picks))
         ELSE firstPick(labels, Tail(picks))

\* the keyword families in the order the code tries them:
\* when = substrings of the label any of which selects the family,
\* picks = the pattern lists tried in turn
KeywordFamilies == <<
    [when |-> {"data", "nda"}, picks |-> << <<"nda">>, <<"data", "room">>, <<"access">> >>],
    [when |-> {"ready"},       picks |-> << <<"ready", "sub">>, <<"ready", "doc">> >>],
    [when |-> {"sent"},        picks |-> << <<"sent", "sub">>, <<"sent", "doc">> >>],
    [when |-> {"signed"},      picks |-> << <<"sign", "sub">>, <<"execut">> >>],
    [when |-> {"verbal"},      picks |-> << <<"verbal">> >>],
    [when |-> {"deck", "ppm"}, picks |-> << <<"deck">>, <<"ppm">>, <<"material">> >>],
    [when |-> {"intro"},       picks |-> << <<"intro">> >>],
    [when |-> {"early"},       picks |-> << <<"early">> >>],
    [when |-> {"target"},      picks |-> << <<"target">>, <<"new">> >>],
    [when |-> {"commit"},      picks |-> << <<"commit">> >> ] >>

\* if (!candidate && norm.includes(..)) candidate = pickBy(..) || pickBy(..)
RECURSIVE keywordCandidate(_, _, _)
keywordCandidate(norm, labels, k) ==
    IF k > Len(KeywordFamilies) THEN ""
    ELSE LET fam == KeywordFamilies[k]
             got == IF \E w \in fam.when : includes(norm, w)
                    THEN firstPick(labels, fam.picks) ELSE ""
         IN  IF got # "" THEN got ELSE keywordCandidate(norm, labels, k + 1)

resolveStatusOptionId(statusLabel, labelToId, aliases) ==
    IF statusLabel = "" THEN 0
    ELSE LET effective == applyAlias(statusLabel, aliases)
             norm      == toLowerCase(effective)
             labels    == mapKeys(labelToId)
             candidate == keywordCandidate(norm, labels, 1)
             target    == safeBestMatch(norm, labels, 80)
         IN  IF mapHas(labelToId, norm) THEN mapGet(labelToId, norm)
             ELSE IF candidate # "" /\ mapHas(labelToId, candidate)
                  THEN mapGet(labelToId, candidate)
             ELSE IF target # "" THEN mapGet(labelToId, target)
             ELSE 0

(***************************************************************************)
(* The write-safety gate of the handler: from the current label read for   *)
(* the matched entry and the derived label to the row's outcome.  Authorized*)
(* is the point where the handler holds an option id and is about to       *)
(* report wouldUpdate (dry run) or call updateStatus.                      *)
(***************************************************************************)
\* variant: an undetermined label (no index) is not compared
belowThreshold_rankedOnly(minIdx, derivedIdx) ==
    minIdx # -1 /\ derivedIdx # -1 /\ derivedIdx < minIdx

\* variant: the comparison the wrong way round
belowThreshold_reversed(minIdx, derivedIdx) == minIdx # -1 /\ derivedIdx > minIdx

\* (minIdx !== -1 && (derivedIdx ?? -1) < minIdx)
belowThreshold(minIdx, derivedIdx) == minIdx # -1 /\ derivedIdx < minIdx

\* variant: the comparison the wrong way round
wouldDowngrade_reversed(currentIdx, derivedIdx) ==
    currentIdx # -1 /\ derivedIdx # -1 /\ derivedIdx > currentIdx

\* (currentIdx ?? -1) !== -1 && (derivedIdx ?? -1) !== -1 && derivedIdx < currentIdx
wouldDowngrade(currentIdx, derivedIdx) ==
    currentIdx # -1 /\ derivedIdx # -1 /\ derivedIdx < currentIdx

\* variant: the two labels compared as written
unchanged_caseSensitive(currentLabel, statusLabel) ==
    currentLabel # "" /\ currentLabel = statusLabel

\* currentLabel && currentLabel.toLowerCase() === String(statusLabel || '').toLowerCase()
unchanged(currentLabel, statusLabel) ==
    currentLabel # "" /\ toLowerCase(currentLabel) = toLowerCase(statusLabel)

\* variant: the Unchanged check moved in front of the threshold check
decide_unchangedFirst(currentLabel, statusLabel, minLabel, aliases, labelToId) ==
    LET minIdx     == minIdxOf(minLabel)
        currentIdx == STATUS_INDEX(toLowerCase(currentLabel))
        derivedIdx == STATUS_INDEX(toLowerCase(statusLabel))
        optionId   == resolveStatusOptionId(statusLabel, labelToId, aliases)
        skip(o)    == [outcome |-> o, optionId |-> 0]
    IN  IF isPassedLabel(currentLabel) THEN skip("HardLocked")
        ELSE IF unchanged(currentLabel, statusLabel) THEN skip("Unchanged")
        ELSE IF belowThreshold(minIdx, derivedIdx) THEN skip("BelowThreshold")
        ELSE IF wouldDowngrade(currentIdx, derivedIdx) THEN skip("WouldDowngrade")
        ELSE IF statusLabel = "" THEN skip("Underived")
        ELSE IF optionId = 0 THEN skip("UnknownLabel")
        ELSE [outcome |-> "Authorized", optionId |-> optionId]

decide(currentLabel, statusLabel, minLabel, aliases, labelToId) ==
    LET minIdx     == minIdxOf(minLabel)
        currentIdx == STATUS_INDEX(toLowerCase(currentLabel))
        derivedIdx == STATUS_INDEX(toLowerCase(statusLabel))
        optionId   == resolveStatusOptionId(statusLabel, labelToId, aliases)
        skip(o)    == [outcome |-> o, optionId |-> 0]
    IN  IF isPassedLabel(currentLabel) THEN skip("HardLocked")
        ELSE IF belowThreshold(minIdx, derivedIdx) THEN skip("BelowThreshold")
        ELSE IF wouldDowngrade(currentIdx, derivedIdx) THEN skip("WouldDowngrade")
        ELSE IF unchanged(currentLabel, statusLabel) THEN skip("Unchanged")
        ELSE IF statusLabel = "" THEN skip("Underived")
        ELSE IF optionId = 0 THEN skip("UnknownLabel")
        ELSE [outcome |-> "Authorized", optionId |-> optionId]

\* variant: the dry flag is not consulted
afterGate_ignoresDry(outcome, isDryRun) ==
    IF outcome # "Authorized" THEN outcome ELSE "Write"

\* after the gate: a dry run reports wouldUpdate, any other run calls updateStatus
afterGate(outcome, isDryRun) ==
    IF outcome # "Authorized" THEN outcome
    ELSE IF isDryRun THEN "WouldUpdate" ELSE "Write"

(***************************************************************************)
(* The entry of the handler: method, AFFINITY_V2_TOKEN, isAuthorized.      *)
(* A request is the record of what the handler reads from req and from     *)
(* process.env at that point; "" stands for a header or a variable that is *)
(* absent.                                                                 *)
(***************************************************************************)
DIGITS == "0123456789"
BASE64 == UPPER \o LOWER \o DIGITS \o "+/"

\* base64 character -> its 6-bit value ('=' padding counts 0)
Base64Table ==
    [c \in {charAt(BASE64, k) : k \in 1..Len(BASE64)} \cup {"="} |->
        IF c = "=" THEN 0
        ELSE (CHOOSE k \in 1..Len(BASE64) : charAt(BASE64, k) = c) - 1]

\* the character of a byte; bytes other than letters, digits and ':' read '?'
byteChar(b) ==
    IF b \in 48..57 THEN charAt(DIGITS, b - 47)
    ELSE IF b = 58 THEN ":"
    ELSE IF b \in 65..90 THEN charAt(UPPER, b - 64)
    ELSE IF b \in 97..122 THEN charAt(LOWER, b - 96)
    ELSE "?"

\* Buffer.from(b64, 'base64').toString('utf8') for well-formed base64
RECURSIVE base64Decode(_)
base64Decode(b64) ==
    IF Len(b64) < 4 THEN ""
    ELSE LET n == Base64Table[charAt(b64, 1)] * 262144
                  + Base64Table[charAt(b64, 2)] * 4096
                  + Base64Table[charAt(b64, 3)] * 64
                  + Base64Table[charAt(b64, 4)]
         IN  byteChar(n \div 65536)
             \o (IF charAt(b64, 3) = "=" THEN "" ELSE byteChar((n \div 256) % 256))
             \o (IF charAt(b64, 4) = "=" THEN "" ELSE byteChar(n % 256))
             \o base64Decode(SubSeq(b64, 5, Len(b64)))

startsWith(s, prefix) ==
    Len(s) >= Len(prefix) /\ SubSeq(s, 1, Len(prefix)) = prefix

\* s.split(sep) for a separator of one character
RECURSIVE split(_, _)
split(s, sep) ==
    IF \E i \in 1..Len(s) : charAt(s, i) = sep
    THEN LET i == CHOOSE k \in 1..Len(s) :
                    /\ charAt(s, k) = sep
                    /\ \A j \in 1..(k - 1) : charAt(s, j) # sep
         IN  << SubSeq(s, 1, i - 1) >> \o split(SubSeq(s, i + 1, Len(s)), sep)
    ELSE << s >>

\* isAuthorized(req); p of `const [u, p]` is undefined when the decoded text
\* holds no ':', which compares like "" with a configured (non-empty) password
isAuthorized(r) ==
    IF r.apiKey = "" THEN TRUE
    ELSE IF r.hdrKey # "" /\ r.hdrKey = r.apiKey THEN TRUE
    ELSE IF startsWith(r.authorization, "Basic ")
         THEN LET parts  == split(base64Decode(SubSeq(r.authorization, 7,
                                                      Len(r.authorization))), ":")
                  u      == parts[1]
                  p      == IF Len(parts) > 1 THEN parts[2] ELSE ""
                  userOk == IF r.basicUser # "" THEN u = r.basicUser ELSE TRUE
                  passOk == IF r.basicPass # "" THEN p = r.basicPass ELSE TRUE
              IN  userOk /\ passOk
    ELSE IF startsWith(r.authorization, "Bearer ")
         THEN LET token == trim(SubSeq(r.authorization, 8, Len(r.authorization)))
              IN  token # "" /\ token = r.apiKey
    ELSE FALSE

(***************************************************************************)
(* Name normalization: normalizeName, stripLegalSuffixes / normalizeOrgKey *)
(* and normalizePersonKey.                                                 *)
(***************************************************************************)
AlnumChars == {charAt(LOWER \o DIGITS, k) : k \in 1..Len(LOWER \o DIGITS)}

\* normalize('NFD') followed by the removal of the combining marks
AccentTable ==
    [c \in {"é", "É", "ö", "ñ"} |->
        IF c = "é" THEN "e" ELSE IF c = "É" THEN "E" ELSE IF c = "ö" THEN "o" ELSE "n"]

RECURSIVE normalizeAscii(_)
normalizeAscii(s) ==
    IF s = "" THEN ""
    ELSE (IF charAt(s, 1) \in DOMAIN AccentTable THEN AccentTable[charAt(s, 1)]
          ELSE charAt(s, 1))
         \o normalizeAscii(SubSeq(s, 2, Len(s)))

\* .replace(/[^a-z0-9]+/g, " ")
RECURSIVE nonAlnumToSpace(_, _)
nonAlnumToSpace(s, inRun) ==
    IF s = "" THEN ""
    ELSE IF charAt(s, 1) \in AlnumChars
         THEN charAt(s, 1) \o nonAlnumToSpace(SubSeq(s, 2, Len(s)), FALSE)
         ELSE (IF inRun THEN "" ELSE " ")
              \o nonAlnumToSpace(SubSeq(s, 2, Len(s)), TRUE)

\* .replace(/\s+/g, " ")
RECURSIVE collapseWhitespace(_, _)
collapseWhitespace(s, inRun) ==
    IF s = "" THEN ""
    ELSE IF charAt(s, 1) # " "
         THEN charAt(s, 1) \o collapseWhitespace(SubSeq(s, 2, Len(s)), FALSE)
         ELSE (IF inRun THEN "" ELSE " ")
              \o collapseWhitespace(SubSeq(s, 2, Len(s)), TRUE)

normalizeName(name) ==
    collapseWhitespace(
        trim(nonAlnumToSpace(toLowerCase(normalizeAscii(name)), FALSE)), FALSE)

\* /\b(w)\b$/ matches n: n ends with w and a word boundary precedes w
endsWithWord(n, w) ==
    /\ Len(n) >= Len(w)
    /\ SubSeq(n, Len(n) - Len(w) + 1, Len(n)) = w
    /\ (Len(n) = Len(w) \/ charAt(n, Len(n) - Len(w)) \notin AlnumChars)

\* n.replace(/\b(w1|w2|..)\b$/g, ""): one match at most, at the end
replaceAtEnd(n, words) ==
    IF \E w \in words : endsWithWord(n, w)
    THEN LET w == CHOOSE v \in words :
                    /\ endsWithWord(n, v)
                    /\ \A u \in words : endsWithWord(n, u) => Len(u) <= Len(v)
         IN  SubSeq(n, 1, Len(n) - Len(w))
    ELSE n

\* the alternatives of the two expressions that normalized text can hold
\* (those written with a '.' need a '.', which normalizeName has removed)
LegalSuffixes ==
    {"incorporated", "inc", "ltd", "limited", "llc", "llp", "lp", "plc",
     "gmbh", "sarl", "ag", "bv"}
CompanyWords == {"co", "company", "partners", "holdings", "capital"}

stripLegalSuffixes(orgName) ==
    LET n == normalizeName(orgName)
    IN  trim(collapseWhitespace(
            replaceAtEnd(replaceAtEnd(n, LegalSuffixes), CompanyWords), FALSE))

normalizeOrgKey(orgName) == stripLegalSuffixes(orgName)

RECURSIVE join(_, _)
join(parts, sep) ==
    IF parts = << >> THEN ""
    ELSE IF Len(parts) = 1 THEN parts[1]
    ELSE parts[1] \o sep \o join(Tail(parts), sep)

PersonSuffixes == {"jr", "sr", "ii", "iii", "iv"}

\* normalizeName(name).replace(/\b(jr|sr|ii|iii|iv)\b/g, ""): the words of
\* normalized text are its parts between blanks
normalizePersonKey(name) ==
    LET words == split(normalizeName(name), " ")
        kept  == [i \in 1..Len(words) |->
                    IF words[i] \in PersonSuffixes THEN "" ELSE words[i]]
    IN  trim(collapseWhitespace(join(kept, " "), FALSE))

(***************************************************************************)
(* Nicknames: loadNicknameAliases and personKeyVariants.  The table keeps  *)
(* the order of the object's keys; a list without repetitions stands for a *)
(* Set in insertion order.                                                 *)
(***************************************************************************)
NicknameDefaults == <<
    [canon |-> "alexander",   variants |-> <<"alex">>],
    [canon |-> "andrew",      variants |-> <<"andy">>],
    [canon |-> "anthony",     variants |-> <<"tony">>],
    [canon |-> "benjamin",    variants |-> <<"ben">>],
    [canon |-> "charles",     variants |-> <<"charlie", "chuck">>],
    [canon |-> "christopher", variants |-> <<"chris">>],
    [canon |-> "daniel",      variants |-> <<"dan", "danny">>],
    [canon |-> "david",       variants |-> <<"dave">>],
    [canon |-> "elizabeth",   variants |-> <<"liz", "beth", "lizzy", "eliza">>],
    [canon |-> "jacob",       variants |-> <<"jake">>],
    [canon |-> "james",       variants |-> <<"jim", "jimmy">>],
    [canon |-> "jonathan",    variants |-> <<"jon">>],
    [canon |-> "joshua",      variants |-> <<"josh">>],
    [canon |-> "katherine",   variants |-> <<"kate", "katie", "kat">>],
    [canon |-> "louis",       variants |-> <<"lou">>],
    [canon |-> "matthew",     variants |-> <<"matt">>],
    [canon |-> "michael",     variants |-> <<"mike">>],
    [canon |-> "nicholas",    variants |-> <<"nick">>],
    [canon |-> "patrick",     variants |-> <<"pat">>],
    [canon |-> "robert",      variants |-> <<"rob", "bob", "bobby">>],
    [canon |-> "steven",      variants |-> <<"steve">>],
    [canon |-> "stephen",     variants |-> <<"steve">>],
    [canon |-> "thomas",      variants |-> <<"tom">>],
    [canon |-> "william",     variants |-> <<"will", "bill", "billy">> ] >>

\* Array.from(new Set(list))
RECURSIVE dedupe(_)
dedupe(list) ==
    IF list = << >> THEN << >>
    ELSE LET front == dedupe(SubSeq(list, 1, Len(list) - 1))
             last  == list[Len(list)]
         IN  IF \E i \in 1..Len(front) : front[i] = last
             THEN front ELSE Append(front, last)

\* NICKNAMES[first], << >> for undefined
nickOf(nicknames, first) ==
    IF \E i \in 1..Len(nicknames) : nicknames[i].canon = first
    THEN nicknames[CHOOSE i \in 1..Len(nicknames) : nicknames[i].canon = first].variants
    ELSE << >>

\* defaults[key] = Array.from(new Set([...(defaults[key] || []), ...arr]))
setNick(nicknames, key, arr) ==
    LET merged == dedupe(nickOf(nicknames, key) \o arr)
    IN  IF \E i \in 1..Len(nicknames) : nicknames[i].canon = key
        THEN [i \in 1..Len(nicknames) |->
                IF nicknames[i].canon = key
                THEN [canon |-> key, variants |-> merged] ELSE nicknames[i]]
        ELSE Append(nicknames, [canon |-> key, variants |-> merged])

\* loadNicknameAliases with NICKNAME_ALIASES_JSON = custom (<< >> when unset)
RECURSIVE loadNicknameAliases(_, _)
loadNicknameAliases(nicknames, custom) ==
    IF custom = << >> THEN nicknames
    ELSE loadNicknameAliases(
            setNick(nicknames, toLowerCase(Head(custom).canon),
                    [i \in 1..Len(Head(custom).variants) |->
                        toLowerCase(Head(custom).variants[i])]),
            Tail(custom))

firstLastFromPersonName(name) ==
    LET parts == SelectSeq(split(normalizePersonKey(name), " "), LAMBDA p : p # "")
    IN  IF Len(parts) = 0 THEN [first |-> "", last |-> ""]
        ELSE IF Len(parts) = 1 THEN [first |-> parts[1], last |-> ""]
        ELSE [first |-> parts[1], last |-> parts[Len(parts)]]

\* the canonical names whose variants include first, in the order of the table
canonsOf(nicknames, first) ==
    LET hits == SelectSeq(nicknames,
                    LAMBDA n : \E i \in 1..Len(n.variants) : n.variants[i] = first)
    IN  [i \in 1..Len(hits) |-> hits[i].canon]

\* variant: the canonical forms of a nickname are not added
personKeyVariants_noCanon(name, nicknames) ==
    LET fl     == firstLastFromPersonName(name)
        firsts == dedupe(<< fl.first >> \o nickOf(nicknames, fl.first))
    IN  IF fl.first = "" /\ fl.last = "" THEN << >>
        ELSE dedupe([i \in 1..Len(firsts) |->
                        normalizeName(firsts[i] \o " " \o fl.last)])

personKeyVariants(name, nicknames) ==
    LET fl     == firstLastFromPersonName(name)
        firsts == dedupe(<< fl.first >> \o nickOf(nicknames, fl.first)
                         \o canonsOf(nicknames, fl.first))
    IN  IF fl.first = "" /\ fl.last = "" THEN << >>
        ELSE dedupe([i \in 1..Len(firsts) |->
                        normalizeName(firsts[i] \o " " \o fl.last)])

(***************************************************************************)
(* Regular expressions of the status derivation.  An expression is a list  *)
(* of alternatives, an alternative a list of elements: a literal, \s*,     *)
(* \s+, .*, an optional literal, \b.  test is RegExp.prototype.test.       *)
(***************************************************************************)
lit(v) == [k |-> "lit", v |-> v]
opt(v) == [k |-> "opt", v |-> v]
ws0    == [k |-> "ws*", v |-> ""]
ws1    == [k |-> "ws+", v |-> ""]
any0   == [k |-> "any*", v |-> ""]
wb     == [k |-> "wb", v |-> ""]

WordChars == AlnumChars \cup {charAt(UPPER, k) : k \in 1..Len(UPPER)} \cup {"_"}

isWordAt(s, i) == i \in 1..Len(s) /\ charAt(s, i) \in WordChars

litAt(s, i, v) == i + Len(v) - 1 <= Len(s) /\ SubSeq(s, i, i + Len(v) - 1) = v

RECURSIVE matchFrom(_, _, _, _)
matchFrom(s, i, pat, j) ==
    IF j > Len(pat) THEN TRUE
    ELSE LET e == pat[j] IN
         IF e.k = "lit"
         THEN litAt(s, i, e.v) /\ matchFrom(s, i + Len(e.v), pat, j + 1)
         ELSE IF e.k = "opt"
         THEN \/ litAt(s, i, e.v) /\ matchFrom(s, i + Len(e.v), pat, j + 1)
              \/ matchFrom(s, i, pat, j + 1)
         ELSE IF e.k = "wb"
         THEN isWordAt(s, i - 1) # isWordAt(s, i) /\ matchFrom(s, i, pat, j + 1)
         ELSE \E n \in (IF e.k = "ws+" THEN 1 ELSE 0)..(Len(s) - i + 1) :
                 /\ e.k = "any*" \/ \A m \in i..(i + n - 1) : charAt(s, m) = " "
                 /\ matchFrom(s, i + n, pat, j + 1)

test(re, s) ==
    \E a \in 1..Len(re) : \E i \in 1..(Len(s) + 1) : matchFrom(s, i, re[a], 1)

\* /subscription/i and /data\s*room.*access/i, applied to lower-cased keys
SubscriptionKeyRe == << << lit("subscription") >> >>
DataRoomAccessKeyRe == << << lit("data"), ws0, lit("room"), any0, lit("access") >> >>

SignedRe ==
    << << lit("counter"), ws0, opt("-"), lit("signed") >>,
       << lit("fully"), ws0, lit("executed") >>,
       << lit("executed") >>,
       << lit("signed") >> >>
ReadyRe ==
    << << lit("awaiting"), any0, lit("investor"), any0, lit("signature") >>,
       << lit("staff review") >> >>
SentRe == << << lit("started") >>, << lit("draft") >>, << lit("invited") >> >>
NotYetRe == << << lit("not yet accessed") >>, << lit("not"), ws0, lit("yet") >> >>
GrantedRe == << << lit("granted") >>, << lit("yes") >>, << lit("y") >> >>
DeckRe ==
    << << lit("ppm") >>, << lit("pitch"), ws0, lit("deck") >>,
       << lit("deck"), ws0, lit("sent") >> >>
IntroUpdateRe ==
    << << lit("first"), ws0, lit("meeting") >>,
       << lit("meeting"), ws1, lit("scheduled") >>,
       << lit("intro"), ws0, lit("call") >>,
       << lit("intro"), wb >> >>
IntroProspectRe == << << lit("intro") >>, << lit("first"), ws0, lit("meeting") >> >>
EarlyRe ==
    << << lit("contacted") >>, << lit("engaged") >>,
       << lit("early"), ws0, lit("dialogue") >> >>
TargetRe == << << lit("target"), ws0, lit("identified") >> >>
DigitRe == [i \in 1..Len(DIGITS) |-> << lit(charAt(DIGITS, i)) >>]
MonthRe ==
    << << lit("jan") >>, << lit("feb") >>, << lit("mar") >>, << lit("apr") >>,
       << lit("may") >>, << lit("jun") >>, << lit("jul") >>, << lit("aug") >>,
       << lit("sep") >>, << lit("oct") >>, << lit("nov") >>, << lit("dec") >> >>

(***************************************************************************)
(* deriveStatusLabelFromRow.  A row is the list of its columns, each a     *)
(* key and a value, in the order of the CSV header.                        *)
(***************************************************************************)
\* a || b on strings
orElse(a, b) == IF a # "" THEN a ELSE b

hasColumn(row, key) == \E i \in 1..Len(row) : row[i].key = key
column(row, key) == row[CHOOSE i \in 1..Len(row) : row[i].key = key].value

\* get = (k) => String(row[k] ?? row[k.trim()] ?? "").trim()
get(row, key) ==
    trim(IF hasColumn(row, key) THEN column(row, key)
         ELSE IF hasColumn(row, trim(key)) THEN column(row, trim(key))
         ELSE "")

\* anyVal = (re) => the value of the first column whose key matches re
anyVal(row, re) ==
    IF \E i \in 1..Len(row) : test(re, toLowerCase(row[i].key))
    THEN row[CHOOSE i \in 1..Len(row) :
               /\ test(re, toLowerCase(row[i].key))
               /\ \A j \in 1..(i - 1) : ~test(re, toLowerCase(row[j].key))].value
    ELSE ""

\* SUB_STATUS_TO_STAGE_JSON as a function from lower-cased text to a label;
\* "" stands for null
mapSubStatusWithOverrides(sub, overrides) ==
    IF sub \in DOMAIN overrides THEN overrides[sub] ELSE ""

accessedFromDetail(detailRaw) ==
    LET raw   == trim(detailRaw)
        parts == split(raw, ";")
    IN  /\ raw # ""
        /\ \E i \in 1..Len(parts) :
              LET p == toLowerCase(trim(parts[i]))
              IN  /\ p # ""
                  /\ ~(includes(p, "not yet accessed") \/ includes(p, "not yet"))
                  /\ (test(DigitRe, p) \/ test(MonthRe, toLowerCase(parts[i])))

\* the text given to accessedFromDetail
dataRoomAccessDetailRaw(row) ==
    orElse(orElse(get(row, "Data room access detail"),
                  get(row, " Data room access detail")),
           anyVal(row, DataRoomAccessKeyRe))

subOf(row) ==
    toLowerCase(orElse(orElse(get(row, "Subscription Status"), get(row, "Subscription")),
                       anyVal(row, SubscriptionKeyRe)))

\* the fallback to Prospect Status and Latest update
hintLabel(row) ==
    LET prospectStatus == toLowerCase(get(row, "Prospect Status"))
        latestUpdate   == toLowerCase(get(row, "Latest update"))
    IN  IF includes(prospectStatus, "soft") /\ includes(prospectStatus, "circled") THEN ""
        ELSE IF test(DeckRe, latestUpdate) THEN "Deck & PPM Sent"
        ELSE IF test(IntroUpdateRe, latestUpdate) \/ test(IntroProspectRe, prospectStatus)
             THEN "Intro/First Meeting"
        ELSE IF test(EarlyRe, prospectStatus) THEN "Early Dialogue (Post-Intro)"
        ELSE IF test(TargetRe, prospectStatus) \/ prospectStatus = "new"
             THEN "Target Identified"
        ELSE ""

\* the data-room rules: detail, last accessed, granted; "" when none applies
dataRoomLabel(row) ==
    LET dataRoomGranted      == toLowerCase(get(row, "Data room granted"))
        dataRoomLastAccessed == toLowerCase(get(row, "Data room last accessed"))
    IN  IF accessedFromDetail(dataRoomAccessDetailRaw(row))
        THEN "Data Room Accessed / NDA Executed"
        ELSE IF dataRoomLastAccessed # "" /\ ~test(NotYetRe, dataRoomLastAccessed)
        THEN "Data Room Accessed / NDA Executed"
        ELSE IF test(GrantedRe, dataRoomGranted) THEN "Invited to Data Room"
        ELSE ""

\* the subscription rules; "" when none applies
subscriptionLabel(sub) ==
    IF test(SignedRe, sub) THEN "Sub Docs Signed"
    ELSE IF test(ReadyRe, sub) THEN "Ready for Sub Docs"
    ELSE IF test(SentRe, sub) THEN "Sub Docs Sent"
    ELSE ""

\* variant: the data-room rules are taken before the subscription rules
deriveStatusLabelFromRow_dataRoomFirst(row, overrides) ==
    LET sub      == subOf(row)
        override == mapSubStatusWithOverrides(sub, overrides)
    IN  IF override # "" THEN override
        ELSE IF dataRoomLabel(row) # "" THEN dataRoomLabel(row)
        ELSE IF subscriptionLabel(sub) # "" THEN subscriptionLabel(sub)
        ELSE hintLabel(row)

deriveStatusLabelFromRow(row, overrides) ==
    LET sub      == subOf(row)
        override == mapSubStatusWithOverrides(sub, overrides)
    IN  IF override # "" THEN override
        ELSE IF subscriptionLabel(sub) # "" THEN subscriptionLabel(sub)
        ELSE IF dataRoomLabel(row) # "" THEN dataRoomLabel(row)
        ELSE hintLabel(row)

(***************************************************************************)
(* The matcher: entity types, the association sets, the indexes built from *)
(* the list entries, and the strategies that select the entry of a record. *)
(* An entry is named by its position in the list of entries; 0 stands for  *)
(* null.  A Map is the list of its keys and values in insertion order.     *)
(***************************************************************************)
Zero == [num |-> 0, den |-> 1]
One  == [num |-> 1, den |-> 1]
pct(p) == [num |-> p, den |-> 100]

\* Math.min
minRating(a, b) == IF ratingGreater(a, b) THEN b ELSE a

inSeq(arr, x) == \E i \in 1..Len(arr) : arr[i] = x

NoMatch == [found |-> FALSE, target |-> "", rating |-> Zero]

\* safeBestMatchWithRating(main, arr): bestMatch, or null (found = FALSE)
safeBestMatchWithRating(main, arr) ==
    LET candidates == SelectSeq(arr, LAMBDA x : x # "")
    IN  IF main = "" \/ Len(candidates) = 0 THEN NoMatch
        ELSE LET b == candidates[bestMatchIndex(main, candidates, 1, 1)]
             IN  [found |-> TRUE, target |-> b, rating |-> compareTwoStrings(main, b)]

OrgKeywords ==
    {"inc", "llc", "ltd", "limited", "capital", "partners", "partner", "holdings",
     "group", "ventures", "foundation", "family", "company", "co", "plc", "bv",
     "gmbh", "sarl", "ag", "llp", "lp", "org"}

isLikelyPersonName(name) ==
    LET parts == SelectSeq(split(normalizeName(name), " "), LAMBDA p : p # "")
    IN  /\ Len(parts) >= 2 /\ Len(parts) <= 4
        /\ ~\E i \in 1..Len(parts) : parts[i] \in OrgKeywords

classifyEntityType(ent) ==
    LET typeRaw == toLowerCase(ent.type)
    IN  IF includes(typeRaw, "person") \/ includes(typeRaw, "people")
           \/ includes(typeRaw, "contact") THEN "person"
        ELSE IF includes(typeRaw, "org") \/ includes(typeRaw, "company")
                \/ includes(typeRaw, "organization") THEN "organization"
        ELSE IF ent.first_name # "" \/ ent.last_name # "" THEN "person"
        ELSE IF isLikelyPersonName(ent.name) THEN "person"
        ELSE "organization"

\* the display name of a person entity
displayOf(ent) ==
    IF ent.first_name # "" \/ ent.last_name # ""
    THEN trim(ent.first_name \o " " \o ent.last_name)
    ELSE trim(ent.name)

\* fetchEntriesWithStatus: the names of the People / Organization fields of
\* the entry, and the entity itself added to the set of its own type
associationsOf(ent) ==
    IF classifyEntityType(ent) = "person"
    THEN [assocPeople |-> dedupe(dedupe(ent.people)
                            \o (IF displayOf(ent) # "" THEN << displayOf(ent) >> ELSE << >>)),
          assocOrgs   |-> dedupe(ent.orgs)]
    ELSE [assocPeople |-> dedupe(ent.people),
          assocOrgs   |-> dedupe(dedupe(ent.orgs)
                            \o (IF trim(ent.name) # "" THEN << trim(ent.name) >> ELSE << >>))]

\* Map: has, get, set-if-absent; a list-valued Map: add an entry once
has(m, key) == \E i \in 1..Len(m) : m[i].key = key
at(m, key) == m[CHOOSE i \in 1..Len(m) : m[i].key = key].val
keysOf(m) == [i \in 1..Len(m) |-> m[i].key]
\* variant: the last writer takes the key
putIfAbsent_overwrite(m, key, val) ==
    IF has(m, key)
    THEN [i \in 1..Len(m) |-> IF m[i].key = key THEN [key |-> key, val |-> val] ELSE m[i]]
    ELSE Append(m, [key |-> key, val |-> val])

putIfAbsent(m, key, val) ==
    IF has(m, key) THEN m ELSE Append(m, [key |-> key, val |-> val])
listAt(m, key) == IF has(m, key) THEN at(m, key) ELSE << >>
addTo(m, key, id) ==
    IF has(m, key)
    THEN [i \in 1..Len(m) |->
            IF m[i].key = key /\ ~inSeq(m[i].val, id)
            THEN [key |-> key, val |-> Append(m[i].val, id)] ELSE m[i]]
    ELSE Append(m, [key |-> key, val |-> << id >>])

RECURSIVE putAll(_, _, _)
putAll(m, keys, val) ==
    IF keys = << >> THEN m ELSE putAll(putIfAbsent(m, Head(keys), val), Tail(keys), val)

RECURSIVE addAll(_, _, _)
addAll(m, keys, id) ==
    IF keys = << >> THEN m ELSE addAll(addTo(m, Head(keys), id), Tail(keys), id)

namesIn(list) == { list[i] : i \in 1..Len(list) }

NoIndex ==
    [orgKeyToEntry |-> << >>, personKeyToEntry |-> << >>,
     personAssocKeyToEntries |-> << >>, orgAssocKeyToEntries |-> << >>]

\* The normalizers and the classification are pure: what they return for the
\* entities of the entries and for the names of the entries and of the record
\* is held in cx, and cx.orgKey[name] stands for normalizeOrgKey(name),
\* cx.personKey[name] for normalizePersonKey(name), cx.variants[name] for
\* personKeyVariants(name), cx.type[e] for classifyEntityType(e.entity),
\* cx.assoc[e] for associationsById.get(e.id).
tabulate(entries, nicknames, rec, assoc) ==
    LET people == namesIn(rec.personCandidates)
                  \cup { displayOf(entries[i]) : i \in 1..Len(entries) }
                  \cup UNION { namesIn(assoc[i].assocPeople) : i \in 1..Len(entries) }
        orgs   == namesIn(rec.orgCandidates)
                  \cup { entries[i].name : i \in 1..Len(entries) }
                  \cup UNION { namesIn(assoc[i].assocOrgs) : i \in 1..Len(entries) }
    IN  [entries   |-> entries,
         assoc     |-> assoc,
         type      |-> [i \in 1..Len(entries) |-> classifyEntityType(entries[i])],
         orgKey    |-> [n \in orgs |-> normalizeOrgKey(n)],
         personKey |-> [n \in people |-> normalizePersonKey(n)],
         variants  |-> [n \in people |-> personKeyVariants(n, nicknames)],
         ix        |-> NoIndex]

\* the keys under which a list of names is indexed
RECURSIVE variantsOfAll(_, _)
variantsOfAll(cx, names) ==
    IF names = << >> THEN << >>
    ELSE cx.variants[Head(names)] \o variantsOfAll(cx, Tail(names))

orgKeysOfAll(cx, names) == [i \in 1..Len(names) |-> cx.orgKey[names[i]]]

\* the loop over entries that builds the four indexes; orgKeys and
\* personKeys are the keys of the first two, in the same order
RECURSIVE buildIndex(_, _, _)
buildIndex(cx, i, ix) ==
    IF i > Len(cx.entries) THEN ix
    ELSE buildIndex(cx, i + 1,
            [ix EXCEPT
                !.personKeyToEntry =
                    IF cx.type[i] = "person"
                    THEN putAll(@, cx.variants[displayOf(cx.entries[i])], i) ELSE @,
                !.orgKeyToEntry =
                    IF cx.type[i] # "person" /\ cx.entries[i].name # ""
                    THEN putIfAbsent(@, cx.orgKey[cx.entries[i].name], i) ELSE @,
                !.personAssocKeyToEntries =
                    addAll(@, variantsOfAll(cx, cx.assoc[i].assocPeople), i),
                !.orgAssocKeyToEntries =
                    addAll(@, orgKeysOfAll(cx, cx.assoc[i].assocOrgs), i)])

\* everything the row loop reads: the entries, their associations and the
\* indexes built from them
context(entries, nicknames, rec) ==
    LET indexed(cx) == [cx EXCEPT !.ix = buildIndex(cx, 1, NoIndex)]
    IN  indexed(tabulate(entries, nicknames, rec,
                         [i \in 1..Len(entries) |-> associationsOf(entries[i])]))

NoBest == [entry |-> 0, type |-> "", score |-> Zero, name |-> ""]

hit(e, type, score, name) == [entry |-> e, type |-> type, score |-> score, name |-> name]

assocPeopleNorm(cx, e) ==
    [i \in 1..Len(cx.assoc[e].assocPeople) |-> cx.personKey[cx.assoc[e].assocPeople[i]]]

assocOrgsNorm(cx, e) ==
    [i \in 1..Len(cx.assoc[e].assocOrgs) |-> cx.orgKey[cx.assoc[e].assocOrgs[i]]]

\* pair path A, one person candidate pv for the entry e found for an
\* organization candidate with rating orgRating (1.0 for an exact key, where
\* Math.min(m.rating, 1.0) is m.rating); a variant is never the empty
\* string, so exact is truthy whenever find returns a variant
validatePerson(best, e, orgRating, name, variants, norm, m) ==
    IF \E i \in 1..Len(variants) : inSeq(norm, variants[i])
    THEN IF ratingGreater(orgRating, best.score)
         THEN hit(e, "organization", orgRating, name) ELSE best
    ELSE IF Len(norm) > 0 /\ m.found
            /\ ratingGreater(minRating(m.rating, orgRating), best.score)
            /\ ratingAtLeast(m.rating, 90)
         THEN hit(e, "organization", minRating(m.rating, orgRating), name) ELSE best

\* the loop over the person candidates
RECURSIVE validatePeople(_, _, _, _, _, _, _)
validatePeople(cx, best, e, orgRating, personCandidates, k, name) ==
    IF k > Len(personCandidates) THEN best
    ELSE validatePeople(cx,
            validatePerson(best, e, orgRating, name,
                cx.variants[personCandidates[k]], assocPeopleNorm(cx, e),
                safeBestMatchWithRating(cx.personKey[personCandidates[k]],
                                        assocPeopleNorm(cx, e))),
            e, orgRating, personCandidates, k + 1, name)

\* pair path A, one organization candidate: the entry under its key, or
\* else the entry under the best key mOrg when its rating is at least 0.9
pairPathAOrg(cx, rec, best, i, orgKey, mOrg) ==
    IF has(cx.ix.orgKeyToEntry, orgKey)
    THEN validatePeople(cx, best, at(cx.ix.orgKeyToEntry, orgKey), One,
                        rec.personCandidates, 1, rec.orgCandidates[i])
    ELSE IF mOrg.found /\ ratingAtLeast(mOrg.rating, 90)
    THEN validatePeople(cx, best, at(cx.ix.orgKeyToEntry, mOrg.target), mOrg.rating,
                        rec.personCandidates, 1, rec.orgCandidates[i])
    ELSE best

RECURSIVE pairPathA(_, _, _, _)
pairPathA(cx, rec, best, i) ==
    IF i > Len(rec.orgCandidates) THEN best
    ELSE pairPathA(cx, rec,
            pairPathAOrg(cx, rec, best, i, cx.orgKey[rec.orgCandidates[i]],
                safeBestMatchWithRating(cx.orgKey[rec.orgCandidates[i]],
                                        keysOf(cx.ix.orgKeyToEntry))),
            i + 1)

\* pair path B, one organization candidate with key ok for the person entry
\* e found with rating personRating
validateOrg(best, e, personRating, name, ok, norm, m) ==
    IF inSeq(norm, ok) /\ ratingGreater(personRating, best.score)
    THEN hit(e, "person", personRating, name)
    ELSE IF Len(norm) > 0 /\ m.found
            /\ ratingGreater(minRating(m.rating, personRating), best.score)
            /\ ratingAtLeast(m.rating, 90)
         THEN hit(e, "person", minRating(m.rating, personRating), name) ELSE best

\* the loop over the organization candidates
RECURSIVE validateOrgs(_, _, _, _, _, _, _)
validateOrgs(cx, best, e, personRating, orgKeys, i, name) ==
    IF i > Len(orgKeys) THEN best
    ELSE validateOrgs(cx,
            validateOrg(best, e, personRating, name, orgKeys[i], assocOrgsNorm(cx, e),
                safeBestMatchWithRating(orgKeys[i], assocOrgsNorm(cx, e))),
            e, personRating, orgKeys, i + 1, name)

\* the loop over the variants of a person candidate
RECURSIVE directPeople(_, _, _, _, _, _)
directPeople(cx, best, name, variants, k, orgKeys) ==
    IF k > Len(variants) THEN best
    ELSE directPeople(cx,
            IF has(cx.ix.personKeyToEntry, variants[k])
            THEN validateOrgs(cx, best, at(cx.ix.personKeyToEntry, variants[k]),
                              One, orgKeys, 1, name)
            ELSE best,
            name, variants, k + 1, orgKeys)

\* pair path B, one person candidate: after the direct variants, the best
\* key mP when no variant was found and its rating is at least 0.9
pairPathBPerson(cx, direct, name, variants, orgKeys, mP) ==
    IF /\ ~\E i \in 1..Len(variants) : has(cx.ix.personKeyToEntry, variants[i])
       /\ mP.found /\ ratingAtLeast(mP.rating, 90)
    THEN validateOrgs(cx, direct, at(cx.ix.personKeyToEntry, mP.target),
                      mP.rating, orgKeys, 1, name)
    ELSE direct

RECURSIVE pairPathB(_, _, _, _, _)
pairPathB(cx, rec, orgKeys, best, k) ==
    IF k > Len(rec.personCandidates) THEN best
    ELSE pairPathB(cx, rec, orgKeys,
            pairPathBPerson(cx,
                directPeople(cx, best, rec.personCandidates[k],
                             cx.variants[rec.personCandidates[k]], 1, orgKeys),
                rec.personCandidates[k], cx.variants[rec.personCandidates[k]], orgKeys,
                safeBestMatchWithRating(cx.personKey[rec.personCandidates[k]],
                                        keysOf(cx.ix.personKeyToEntry))),
            k + 1)

typeOfEntry(cx, e) == IF cx.type[e] = "person" THEN "person" ELSE "organization"

\* an organization candidate of the row is among the organizations of e
sharesOrg(cx, orgKeys, e) ==
    \E i \in 1..Len(orgKeys) : inSeq(assocOrgsNorm(cx, e), orgKeys[i])

\* fallback through the association indexes, one variant of a person
\* candidate, list being the entries indexed under it
assocPeopleVariant(cx, best, list, orgKeys, name) ==
    IF Len(list) = 1 /\ ratingGreater(pct(95), best.score)
    THEN hit(list[1], typeOfEntry(cx, list[1]), pct(95), name)
    ELSE IF Len(list) > 1 /\ Len(orgKeys) > 0 /\ ratingGreater(pct(93), best.score)
            /\ \E j \in 1..Len(list) : sharesOrg(cx, orgKeys, list[j])
    THEN hit(list[CHOOSE j \in 1..Len(list) :
                     /\ sharesOrg(cx, orgKeys, list[j])
                     /\ \A h \in 1..(j - 1) : ~sharesOrg(cx, orgKeys, list[h])],
             typeOfEntry(cx, list[CHOOSE j \in 1..Len(list) :
                     /\ sharesOrg(cx, orgKeys, list[j])
                     /\ \A h \in 1..(j - 1) : ~sharesOrg(cx, orgKeys, list[h])]),
             pct(93), name)
    ELSE best

RECURSIVE assocPeopleVariants(_, _, _, _, _, _)
assocPeopleVariants(cx, best, variants, k, orgKeys, name) ==
    IF k > Len(variants) THEN best
    ELSE assocPeopleVariants(cx,
            assocPeopleVariant(cx, best,
                listAt(cx.ix.personAssocKeyToEntries, variants[k]), orgKeys, name),
            variants, k + 1, orgKeys, name)

RECURSIVE assocPeople(_, _, _, _, _)
assocPeople(cx, rec, orgKeys, best, n) ==
    IF n > Len(rec.personCandidates) THEN best
    ELSE assocPeople(cx, rec, orgKeys,
            assocPeopleVariants(cx, best, cx.variants[rec.personCandidates[n]], 1,
                                orgKeys, rec.personCandidates[n]),
            n + 1)

\* fallback through the association indexes, one organization candidate
assocOrg(best, list, name) ==
    IF Len(list) = 1 /\ ratingGreater(pct(92), best.score)
    THEN hit(list[1], "organization", pct(92), name) ELSE best

RECURSIVE assocOrgs(_, _, _, _)
assocOrgs(cx, rec, best, n) ==
    IF n > Len(rec.orgCandidates) THEN best
    ELSE assocOrgs(cx, rec,
            assocOrg(best,
                listAt(cx.ix.orgAssocKeyToEntries, cx.orgKey[rec.orgCandidates[n]]),
                rec.orgCandidates[n]),
            n + 1)

\* variant: an exact key replaces best at an equal score too
typeOnlyOrg_onTie(cx, best, name, exactKey, m) ==
    IF has(cx.ix.orgKeyToEntry, exactKey)
    THEN IF ~ratingGreater(best.score, One)
         THEN hit(at(cx.ix.orgKeyToEntry, exactKey), "organization", One, name) ELSE best
    ELSE IF m.found /\ ratingGreater(m.rating, best.score) /\ ratingAtLeast(m.rating, 88)
         THEN hit(at(cx.ix.orgKeyToEntry, m.target), "organization", m.rating, name)
         ELSE best

\* type-only matching, one organization candidate
typeOnlyOrg(cx, best, name, exactKey, m) ==
    IF has(cx.ix.orgKeyToEntry, exactKey)
    THEN IF ratingGreater(One, best.score)
         THEN hit(at(cx.ix.orgKeyToEntry, exactKey), "organization", One, name) ELSE best
    ELSE IF m.found /\ ratingGreater(m.rating, best.score) /\ ratingAtLeast(m.rating, 88)
         THEN hit(at(cx.ix.orgKeyToEntry, m.target), "organization", m.rating, name)
         ELSE best

RECURSIVE typeOnlyOrgs(_, _, _, _)
typeOnlyOrgs(cx, rec, best, n) ==
    IF n > Len(rec.orgCandidates) THEN best
    ELSE typeOnlyOrgs(cx, rec,
            typeOnlyOrg(cx, best, rec.orgCandidates[n], cx.orgKey[rec.orgCandidates[n]],
                safeBestMatchWithRating(cx.orgKey[rec.orgCandidates[n]],
                                        keysOf(cx.ix.orgKeyToEntry))),
            n + 1)

\* type-only matching, one person candidate
typeOnlyPerson(cx, best, name, variants, m) ==
    IF /\ ratingGreater(One, best.score)
       /\ \E k \in 1..Len(variants) : has(cx.ix.personKeyToEntry, variants[k])
    THEN hit(at(cx.ix.personKeyToEntry,
                variants[CHOOSE k \in 1..Len(variants) :
                            /\ has(cx.ix.personKeyToEntry, variants[k])
                            /\ \A h \in 1..(k - 1) :
                                  ~has(cx.ix.personKeyToEntry, variants[h])]),
             "person", One, name)
    ELSE IF m.found /\ ratingGreater(m.rating, best.score) /\ ratingAtLeast(m.rating, 85)
         THEN hit(at(cx.ix.personKeyToEntry, m.target), "person", m.rating, name)
         ELSE best

RECURSIVE typeOnlyPeople(_, _, _, _)
typeOnlyPeople(cx, rec, best, n) ==
    IF n > Len(rec.personCandidates) THEN best
    ELSE typeOnlyPeople(cx, rec,
            typeOnlyPerson(cx, best, rec.personCandidates[n],
                cx.variants[rec.personCandidates[n]],
                safeBestMatchWithRating(cx.personKey[rec.personCandidates[n]],
                                        keysOf(cx.ix.personKeyToEntry))),
            n + 1)

\* the two pair paths
pairStage(cx, rec, orgKeys, pairA) ==
    [pairA |-> pairA, pairB |-> pairPathB(cx, rec, orgKeys, pairA, 1)]

\* the fallback through the associations, entered when best.entry is null
assocStage(cx, rec, orgKeys, r) ==
    [pairA |-> r.pairA, pairB |-> r.pairB,
     assoc |-> IF r.pairB.entry = 0
               THEN assocOrgs(cx, rec, assocPeople(cx, rec, orgKeys, r.pairB, 1), 1)
               ELSE r.pairB]

\* type-only matching, entered when best.entry is still null
typeOnlyStage(cx, rec, r) ==
    [pairA |-> r.pairA, pairB |-> r.pairB, assoc |-> r.assoc,
     best  |-> IF r.assoc.entry = 0
               THEN typeOnlyPeople(cx, rec, typeOnlyOrgs(cx, rec, r.assoc, 1), 1)
               ELSE r.assoc]

\* the body of the row loop up to `const entry = best.entry`: best after
\* each of the strategies
strategies(cx, rec, orgKeys) ==
    typeOnlyStage(cx, rec,
        assocStage(cx, rec, orgKeys,
            pairStage(cx, rec, orgKeys, pairPathA(cx, rec, NoBest, 1))))

\* the record with its first n candidates of a kind
firstOrgs(rec, n) == [rec EXCEPT !.orgCandidates = SubSeq(@, 1, n)]
firstPeople(rec, n) == [rec EXCEPT !.personCandidates = SubSeq(@, 1, n)]

\* the values best takes in turn: at its declaration, then after each
\* candidate of each of the loops that are entered
bestSoFar(cx, rec, orgKeys, r) ==
    << NoBest >>
    \o [n \in 1..Len(rec.orgCandidates) |-> pairPathA(cx, firstOrgs(rec, n), NoBest, 1)]
    \o [n \in 1..Len(rec.personCandidates) |->
            pairPathB(cx, firstPeople(rec, n), orgKeys, r.pairA, 1)]
    \o (IF r.pairB.entry = 0
        THEN [n \in 1..Len(rec.personCandidates) |->
                 assocPeople(cx, firstPeople(rec, n), orgKeys, r.pairB, 1)]
             \o [n \in 1..Len(rec.orgCandidates) |->
                 assocOrgs(cx, firstOrgs(rec, n),
                           assocPeople(cx, rec, orgKeys, r.pairB, 1), 1)]
        ELSE << >>)
    \o (IF r.assoc.entry = 0
        THEN [n \in 1..Len(rec.orgCandidates) |->
                 typeOnlyOrgs(cx, firstOrgs(rec, n), r.assoc, 1)]
             \o [n \in 1..Len(rec.personCandidates) |->
                 typeOnlyPeople(cx, firstPeople(rec, n),
                                typeOnlyOrgs(cx, rec, r.assoc, 1), 1)]
        ELSE << >>)

withSteps(cx, rec, orgKeys, r) ==
    [pairA |-> r.pairA, pairB |-> r.pairB, assoc |-> r.assoc, best |-> r.best,
     steps |-> bestSoFar(cx, rec, orgKeys, r)]

tracedStrategies(cx, rec, orgKeys) ==
    withSteps(cx, rec, orgKeys, strategies(cx, rec, orgKeys))

matchWith(cx, rec) == tracedStrategies(cx, rec, orgKeysOfAll(cx, rec.orgCandidates))

matchRecord(entries, nicknames, rec) == matchWith(context(entries, nicknames, rec), rec)

(***************************************************************************)
(* Bounded inputs.                                                         *)
(***************************************************************************)
MaxRows == 2

Entities == {"e1", "e2"}
NoEntry  == "none"

\* the registry's dropdown: the pipeline stages and two terminal options
FullOptions == STATUS_ORDER \o << "Passed", "No-Go " >>
without(options, name) == SelectSeq(options, LAMBDA o : o # name)
NoSignedOptions == without(FullOptions, "Sub Docs Signed")

\* MIN_STATUS_LABEL: the default, another stage in another case, no stage
MinLabels == { DEFAULT_MIN_STATUS_LABEL, "sub docs signed", "Data Room" }

\* STATUS_LABEL_ALIASES_JSON: unset, or an entry pointing at another stage
NoAliases == [k \in {} |-> ""]
BadAliases == [k \in {"sub docs signed"} |-> "Target Identified"]

\* alias table and registry options of a deployment: all in order, an alias
\* that names another stage, a registry without the 'Sub Docs Signed' option
LabelConfigs == { [aliases |-> NoAliases,  options |-> FullOptions],
                  [aliases |-> BadAliases, options |-> FullOptions],
                  [aliases |-> NoAliases,  options |-> NoSignedOptions] }

\* the status each entity can hold when the request starts ("" = none)
StartLabels == [e \in Entities |->
    IF e = "e1" THEN {"", "Invited to Data Room", "Sub Docs Sent", "Passed"}
                ELSE {"No-Go "}]

\* what deriveStatusLabelFromRow returns for the rows of the file
DerivedLabels == {"", "Invited to Data Room", "Sub Docs Sent", "Sub Docs Signed"}

\* a parsed CSV record: whether it carries any organization or person name,
\* the entry the matcher selects for it, and the label derived from it
RowKinds ==
    [hasNames : {TRUE}, entry : {"e1"}, statusLabel : DerivedLabels]
    \cup [hasNames : {TRUE}, entry : {"e2"}, statusLabel : {""}]
    \cup { [hasNames |-> TRUE,  entry |-> NoEntry, statusLabel |-> "Sub Docs Sent"],
           [hasNames |-> FALSE, entry |-> NoEntry, statusLabel |-> ""] }

RowSeqs == UNION { [1..n -> RowKinds] : n \in 0..MaxRows }

\* the deployment's credentials and what a request presents:
\* Basic dTE6cHcx is u1:pw1, eDp5 is x:y, dTE6YmFk is u1:bad
ApiKeys       == {"", "k1"}
BasicConfigs  == { [user |-> "", pass |-> ""], [user |-> "u1", pass |-> "pw1"],
                   [user |-> "u1", pass |-> ""] }
HeaderKeys    == {"", "k1", "k2"}
Authorizations ==
    {"", "Bearer k1", "Bearer  k1 ", "Bearer k2", "Bearer ", "bearer k1",
     "Basic dTE6cHcx", "Basic eDp5", "Basic dTE6YmFk", "Basic dTE6", "Basic dTE="}

AllRequests ==
    { [method |-> m, token |-> t, apiKey |-> k, basicUser |-> b.user,
       basicPass |-> b.pass, hdrKey |-> h, authorization |-> a] :
         m \in {"POST", "GET"}, t \in BOOLEAN, k \in ApiKeys, b \in BasicConfigs,
         h \in HeaderKeys, a \in Authorizations }

\* the requests of the handler runs: a plain authorized upload, and one
\* request for each way the entry of the handler turns a request away
PlainRequest ==
    [method |-> "POST", token |-> TRUE, apiKey |-> "k1", basicUser |-> "",
     basicPass |-> "", hdrKey |-> "k1", authorization |-> ""]

\* names given to the normalizers
OrgBases    == {"Foo", "Acme", "Bental Group", "Café Holdings", ""}
OrgEndings  == {"", " LLC", ", LLC", " Capital, LLC", " Capital Partners LLC",
                " Inc.", " & Co", " Holdings Ltd", " Partners", " L.L.C."}
OrgNames    == { b \o e : b \in OrgBases, e \in OrgEndings }

FirstNames  == {"Matt", "Matthew", "Jean-Luc", "José"}
LastNames   == {"Lee", "O'Neil", "van der Berg"}
NameEndings == {"", " Jr.", " III", ", Sr"}
PersonNames == { f \o " " \o l \o e : f \in FirstNames, l \in LastNames, e \in NameEndings }

\* NICKNAME_ALIASES_JSON: unset, a further variant of a default name, a
\* hyphenated first name with its short form
NicknameConfigs ==
    { << >>,
      << [canon |-> "Matthew", variants |-> <<"Matty">>] >>,
      << [canon |-> "jean-luc", variants |-> <<"jl">>] >> }

\* the (canonical name, variant) pairs of a table
nicknamePairs(nicknames) ==
    UNION { { [canon |-> nicknames[i].canon, variant |-> nicknames[i].variants[j]] :
                j \in 1..Len(nicknames[i].variants) } : i \in 1..Len(nicknames) }

\* the entities of the list entries offered to the matcher, and the name
\* candidates of a row
MaxEntries == 3

entity(type, first, last, name, people, orgs) ==
    [type |-> type, first_name |-> first, last_name |-> last, name |-> name,
     people |-> people, orgs |-> orgs]

MatchEntities ==
    { entity("organization", "", "", "Acme", << >>, << >>),
      entity("organization", "", "", "Bental Group Inc", << "Matthew Lee" >>, << >>),
      entity("", "", "", "Capital", << >>, << >>),
      entity("company", "", "", "Acme, LLC", << >>, << >>),
      entity("person", "Matt", "Lee", "Matt Lee", << >>, << "Other Fund" >>),
      entity("contact", "Matthew", "Lee", "", << >>, << "Bental Group Inc" >>) }

MatchRegistries ==
    { es \in UNION { [1..n -> MatchEntities] : n \in 0..MaxEntries } :
        \A i, j \in 1..Len(es) : i # j => es[i] # es[j] }

MatchOrgCandidates ==
    { << >>, << "Acme Capital, LLC" >>, << "Acme" >>, << "Bental Group" >>, << "LLC" >>,
      << "..." >>, << "Bental Groups" >>, << "Acme Capital, LLC", "Acme" >>,
      << "Acme", "Acme, LLC" >>, << "Bental Groups", "Bental Group" >> }

MatchPersonCandidates == { << >>, << "Matt Lee" >>, << "Matthew Lee" >>, << "Jr." >> }

\* wantsRaw keeps the rows that have a candidate
MatchRecords ==
    { rec \in [orgCandidates : MatchOrgCandidates, personCandidates : MatchPersonCandidates] :
        Len(rec.orgCandidates) > 0 \/ Len(rec.personCandidates) > 0 }

\* the status columns of a row of the export, and the order of the header
SubTexts          == {"", "Countersigned by all parties", "Awaiting investor signature",
                      "Started"}
GrantedTexts      == {"", "Yes"}
DetailTexts       == {"", "not yet accessed; not yet accessed",
                      "PPM: Aug 19, 2025; LPA: not yet accessed", "Declined", "Pending"}
LastAccessedTexts == {"", "Not yet accessed", "Aug 19, 2025"}
ProspectTexts     == {"", "Soft circled", "New", "Contacted"}
LatestTexts       == {"", "PPM sent", "Intro call"}

ColumnOrders ==
    { << "Subscription Status", "Data room granted", "Data room last accessed",
         "Data room access detail", "Prospect Status", "Latest update" >>,
      << "Prospect Status", "Latest update", "Data room granted",
         "Data room access detail", "Data room last accessed", "Subscription Status" >> }

\* SUB_STATUS_TO_STAGE_JSON: unset, or one entry
NoOverrides  == [k \in {} |-> ""]
SubOverrides == { NoOverrides,
                  [k \in {"countersigned by all parties"} |-> "Committed"] }

rowOf(order, values) == [i \in 1..Len(order) |-> [key |-> order[i], value |-> values[order[i]]]]

Requests ==
    { PlainRequest,
      [PlainRequest EXCEPT !.method = "GET"],
      [PlainRequest EXCEPT !.token = FALSE],
      [PlainRequest EXCEPT !.hdrKey = "k2"] }

(***************************************************************************)
(* State.                                                                  *)
(***************************************************************************)
VARIABLES
    options,            \* the registry's dropdown options of the status field
    registry,           \* entity -> option id stored in the registry (0 = none)
    cfg,                \* MIN_STATUS_LABEL, alias table, dry flag of the request
    records,            \* the parsed CSV
    pc,                 \* where the handler is
    labelToId,          \* the label map read with the status field
    currentStatusById,  \* the bulk read: entity -> label ("" = no label)
    idx,                \* the row of wantsRaw being processed
    pending,            \* the updateStatus call in flight
    results,            \* the per-row result records
    writes,             \* every call of updateStatus, in order
    response,           \* HTTP status of the response (0 = none yet)
    startStatus,        \* the registry when the request started
    firstRun,           \* results and writes of the previous run of the file
    gateIn, gateOut,    \* inputs and decisions of the gate taken alone
    req,                \* the request and the environment it is served in
    error,              \* the top-level error of the response ("" = none)
    external,           \* changes made to the registry by others so far
    fnIn, fnOut         \* argument and results of a function taken alone

vars == << options, registry, cfg, records, pc, labelToId, currentStatusById,
           idx, pending, results, writes, response, startStatus, firstRun,
           gateIn, gateOut, req, error, external, fnIn, fnOut >>

gateVars == << gateIn, gateOut >>
envVars  == << req, external >>
fnVars   == << fnIn, fnOut >>

NoPending == [entry |-> NoEntry, optionId |-> 0, currentLabel |-> ""]
NoRun     == [results |-> << >>, writes |-> << >>, ran |-> FALSE]
NoGate    == [currentLabel |-> "", statusLabel |-> "", minLabel |-> "",
              aliases |-> NoAliases, options |-> << >>]
NoFn      == [fn |-> "none"]

\* records.filter(r => r.orgCandidates.length || r.personCandidates.length)
wantsRaw == SelectSeq(records, LAMBDA r : r.hasNames)

registryText(e) == optionText(options, registry[e])

Init ==
    /\ \E lc \in LabelConfigs, min \in MinLabels, dry \in BOOLEAN :
         /\ options = lc.options
         /\ cfg = [minLabel |-> min, aliases |-> lc.aliases, dry |-> dry]
    /\ registry \in { r \in [Entities -> 0..Len(options)] :
                        \A e \in Entities : optionText(options, r[e]) \in StartLabels[e] }
    /\ records \in RowSeqs
    /\ req \in Requests
    /\ pc = "enter"
    /\ error = ""
    /\ external = 0
    /\ fnIn = NoFn
    /\ fnOut = << >>
    /\ labelToId = << >>
    /\ currentStatusById = [e \in Entities |-> ""]
    /\ idx = 1
    /\ pending = NoPending
    /\ results = << >>
    /\ writes = << >>
    /\ response = 0
    /\ startStatus = registry
    /\ firstRun = NoRun
    /\ gateIn = NoGate
    /\ gateOut = << >>

(***************************************************************************)
(* The handler.                                                            *)
(***************************************************************************)
respond(code) ==
    /\ response' = code
    /\ pc' = "done"

\* res.status(code).json({ ok: false, error })
fail(code, msg) ==
    /\ respond(code)
    /\ error' = msg

\* variant: the request goes on without AFFINITY_V2_TOKEN
Enter_noTokenCheck ==
    /\ pc = "enter"
    /\ IF req.method # "POST" THEN fail(405, "Use POST")
       ELSE IF ~isAuthorized(req) THEN fail(401, "Unauthorized")
       ELSE pc' = "parse" /\ UNCHANGED << response, error >>
    /\ UNCHANGED << options, registry, cfg, records, labelToId, currentStatusById,
                    idx, pending, results, writes, startStatus, firstRun,
                    gateVars, envVars, fnVars >>

\* the first lines of the handler: method, token, authorization
Enter ==
    /\ pc = "enter"
    /\ IF req.method # "POST" THEN fail(405, "Use POST")
       ELSE IF ~req.token THEN fail(500, "Missing AFFINITY_V2_TOKEN")
       ELSE IF ~isAuthorized(req) THEN fail(401, "Unauthorized")
       ELSE pc' = "parse" /\ UNCHANGED << response, error >>
    /\ UNCHANGED << options, registry, cfg, records, labelToId, currentStatusById,
                    idx, pending, results, writes, startStatus, firstRun,
                    gateVars, envVars, fnVars >>

\* parse the CSV and keep the records that carry a name; none -> 400
ParseCsv ==
    /\ pc = "parse"
    /\ IF Len(wantsRaw) = 0
       THEN fail(400, "CSV has neither Organization nor Person names")
       ELSE pc' = "fields" /\ UNCHANGED << response, error >>
    /\ UNCHANGED << options, registry, cfg, records, labelToId, currentStatusById,
                    idx, pending, results, writes, startStatus, firstRun, gateVars, envVars, fnVars >>

\* fetchStatusFieldAndOptions: the field and its options; the read fails,
\* or no field named 'Status' (or holding 'status') is found, and it throws
FetchFields ==
    /\ pc = "fields"
    /\ \E got \in {"ok", "read failed", "Could not find Status field on this list"} :
         IF got = "ok"
         THEN /\ labelToId' = fetchStatusFieldAndOptions(options)
              /\ pc' = "entries"
              /\ UNCHANGED << response, error >>
         ELSE /\ fail(500, got)
              /\ UNCHANGED labelToId
    /\ UNCHANGED << options, registry, cfg, records, currentStatusById,
                    idx, pending, results, writes, startStatus, firstRun, gateVars, envVars, fnVars >>

\* fetchEntriesWithStatus: the bulk read of every entry's status label
FetchEntries ==
    /\ pc = "entries"
    /\ \E ok \in BOOLEAN :
         IF ok
         THEN /\ currentStatusById' = [e \in Entities |-> registryText(e)]
              /\ pc' = "rows"
              /\ UNCHANGED << response, error >>
         ELSE /\ fail(500, "read failed")
              /\ UNCHANGED currentStatusById
    /\ UNCHANGED << options, registry, cfg, records, labelToId,
                    idx, pending, results, writes, startStatus, firstRun, gateVars, envVars, fnVars >>

result(rec, currentLabel, outcome, optionId) ==
    [row |-> idx, entry |-> rec.entry, statusLabel |-> rec.statusLabel,
     currentLabel |-> currentLabel, outcome |-> outcome, optionId |-> optionId]

\* variant: no try/catch in fetchEntryStatusLabel, a failed per-entry read
\* ends the request
RowEvaluate_fetchAborts ==
    /\ pc = "rows"
    /\ idx <= Len(wantsRaw)
    /\ LET rec == wantsRaw[idx] IN
       IF rec.entry = NoEntry
       THEN /\ results' = Append(results, result(rec, "", "Unmatched", 0))
            /\ idx' = idx + 1
            /\ UNCHANGED << pc, pending, response, error >>
       ELSE \E fetchOk \in BOOLEAN :
            LET bulk == currentStatusById[rec.entry]
                currentLabel == IF bulk # "" THEN bulk ELSE registryText(rec.entry)
                d == decide(currentLabel, rec.statusLabel, cfg.minLabel,
                            cfg.aliases, labelToId)
                next == afterGate(d.outcome, cfg.dry)
            IN  IF bulk = "" /\ ~fetchOk
                THEN /\ fail(500, "read failed")
                     /\ UNCHANGED << results, idx, pending >>
                ELSE IF next = "Write"
                THEN /\ pending' = [entry |-> rec.entry, optionId |-> d.optionId,
                                    currentLabel |-> currentLabel]
                     /\ pc' = "write"
                     /\ UNCHANGED << results, idx, response, error >>
                ELSE /\ results' = Append(results,
                            result(rec, currentLabel, next, d.optionId))
                     /\ idx' = idx + 1
                     /\ UNCHANGED << pc, pending, response, error >>
    /\ UNCHANGED << options, registry, cfg, records, labelToId, currentStatusById,
                    writes, startStatus, firstRun, gateVars, envVars, fnVars >>

\* one iteration of the loop over wantsRaw up to the call of updateStatus:
\* the match, the current label (bulk map, else the per-entry read, which
\* yields '' when it fails), the gate and the dry-run branch
RowEvaluate ==
    /\ pc = "rows"
    /\ idx <= Len(wantsRaw)
    /\ LET rec == wantsRaw[idx] IN
       IF rec.entry = NoEntry
       THEN /\ results' = Append(results, result(rec, "", "Unmatched", 0))
            /\ idx' = idx + 1
            /\ UNCHANGED << pc, pending >>
       ELSE \E fetchOk \in BOOLEAN :
            LET bulk == currentStatusById[rec.entry]
                currentLabel ==
                    IF bulk # "" THEN bulk
                    ELSE IF fetchOk THEN registryText(rec.entry) ELSE ""
                d == decide(currentLabel, rec.statusLabel, cfg.minLabel,
                            cfg.aliases, labelToId)
                next == afterGate(d.outcome, cfg.dry)
            IN  IF next = "Write"
                THEN /\ pending' = [entry |-> rec.entry, optionId |-> d.optionId,
                                    currentLabel |-> currentLabel]
                     /\ pc' = "write"
                     /\ UNCHANGED << results, idx >>
                ELSE /\ results' = Append(results,
                            result(rec, currentLabel, next, d.optionId))
                     /\ idx' = idx + 1
                     /\ UNCHANGED << pc, pending >>
    /\ UNCHANGED << options, registry, cfg, records, labelToId, currentStatusById,
                    writes, response, error, startStatus, firstRun,
                    gateVars, envVars, fnVars >>

\* variant: no try/catch around updateStatus, a failed POST ends the request
RowWrite_abortOnFailure ==
    /\ pc = "write"
    /\ \E ok \in BOOLEAN :
         /\ writes' = Append(writes, [row |-> idx, entry |-> pending.entry,
                                      optionId |-> pending.optionId, ok |-> ok])
         /\ IF ok
            THEN /\ registry' = [registry EXCEPT ![pending.entry] = pending.optionId]
                 /\ results' = Append(results,
                        result(wantsRaw[idx], pending.currentLabel, "Updated",
                               pending.optionId))
                 /\ idx' = idx + 1
                 /\ pc' = "rows"
                 /\ UNCHANGED << response, error >>
            ELSE /\ fail(500, "write failed")
                 /\ UNCHANGED << registry, results, idx >>
    /\ pending' = NoPending
    /\ UNCHANGED << options, cfg, records, labelToId, currentStatusById,
                    startStatus, firstRun, gateVars, envVars, fnVars >>

\* updateStatus and the try/catch around it: one POST, recorded either way
RowWrite ==
    /\ pc = "write"
    /\ \E ok \in BOOLEAN :
         /\ writes' = Append(writes, [row |-> idx, entry |-> pending.entry,
                                      optionId |-> pending.optionId, ok |-> ok])
         /\ registry' = IF ok THEN [registry EXCEPT ![pending.entry] = pending.optionId]
                        ELSE registry
         /\ results' = Append(results,
                result(wantsRaw[idx], pending.currentLabel,
                       IF ok THEN "Updated" ELSE "WriteFailed", pending.optionId))
    /\ idx' = idx + 1
    /\ pending' = NoPending
    /\ pc' = "rows"
    /\ UNCHANGED << options, cfg, records, labelToId, currentStatusById,
                    response, error, startStatus, firstRun,
                    gateVars, envVars, fnVars >>

\* res.status(200).json({ ok: true, total, results })
Respond ==
    /\ pc = "rows"
    /\ idx > Len(wantsRaw)
    /\ respond(200)
    /\ UNCHANGED << options, registry, cfg, records, labelToId, currentStatusById,
                    idx, pending, results, writes, error, startStatus, firstRun,
                    gateVars, envVars, fnVars >>

Next == Enter \/ ParseCsv \/ FetchFields \/ FetchEntries \/ RowEvaluate \/ RowWrite \/ Respond

Spec == Init /\ [][Next]_vars

(***************************************************************************)
(* The same file uploaded again: a second request that parses the same     *)
(* records and reads the registry afresh.  The results and writes of the   *)
(* first request are kept for comparison.                                  *)
(***************************************************************************)
Rerun ==
    /\ pc = "done"
    /\ response = 200
    /\ ~firstRun.ran
    /\ firstRun' = [results |-> results, writes |-> writes, ran |-> TRUE]
    /\ pc' = "enter"
    /\ labelToId' = << >>
    /\ currentStatusById' = [e \in Entities |-> ""]
    /\ idx' = 1
    /\ results' = << >>
    /\ writes' = << >>
    /\ response' = 0
    /\ startStatus' = registry
    /\ UNCHANGED << options, registry, cfg, records, pending, error,
                    gateVars, envVars, fnVars >>

NextRerun == Next \/ Rerun

SpecRerun == Init /\ [][NextRerun]_vars

(***************************************************************************)
(* The entry of the handler under every combination of configured          *)
(* credentials and presented headers; the upload itself is one row that    *)
(* the gate lets through.                                                  *)
(***************************************************************************)
InitAuth ==
    /\ req \in AllRequests
    /\ options = FullOptions
    /\ cfg = [minLabel |-> DEFAULT_MIN_STATUS_LABEL, aliases |-> NoAliases,
              dry |-> FALSE]
    /\ registry = [e \in Entities |-> 0]
    /\ records = << [hasNames |-> TRUE, entry |-> "e1",
                     statusLabel |-> "Sub Docs Signed"] >>
    /\ pc = "enter"
    /\ error = ""
    /\ external = 0
    /\ fnIn = NoFn
    /\ fnOut = << >>
    /\ labelToId = << >>
    /\ currentStatusById = [e \in Entities |-> ""]
    /\ idx = 1
    /\ pending = NoPending
    /\ results = << >>
    /\ writes = << >>
    /\ response = 0
    /\ startStatus = registry
    /\ firstRun = NoRun
    /\ gateIn = NoGate
    /\ gateOut = << >>

SpecAuth == InitAuth /\ [][Next]_vars

(***************************************************************************)
(* The request while others change the registry: a user of the registry    *)
(* or another upload sets the status of an entity between the steps of     *)
(* this request.                                                           *)
(***************************************************************************)
MaxExternal == 1

\* the statuses others set: the terminal stage and the last stage
ExternalLabels == {"Passed", "Committed"}

ExternalChange ==
    /\ pc \in {"entries", "rows", "write"}
    /\ external < MaxExternal
    /\ \E o \in 1..Len(options) :
         /\ options[o] \in ExternalLabels
         /\ registry["e1"] # o
         /\ registry' = [registry EXCEPT !["e1"] = o]
    /\ external' = external + 1
    /\ UNCHANGED << options, cfg, records, pc, labelToId, currentStatusById,
                    idx, pending, results, writes, response, error, startStatus,
                    firstRun, gateVars, req, fnVars >>

NextConcurrent == Next \/ ExternalChange

SpecConcurrent == Init /\ [][NextConcurrent]_vars

(***************************************************************************)
(* The gate taken alone, as a function of the current label, the derived   *)
(* label and the configuration: it is applied once, and when it authorizes *)
(* a write it is applied again with the current label now naming the       *)
(* derived stage, in any spelling the registry may hold for it.            *)
(***************************************************************************)
Range(f) == { f[i] : i \in DOMAIN f }

GateCurrentLabels == {""} \cup Range(FullOptions)

\* every stage, no stage, and labels a SUB_STATUS_TO_STAGE_JSON entry can
\* name: a terminal label, a stage in lower case, a misspelt stage
GateDerivedLabels ==
    {""} \cup Range(STATUS_ORDER) \cup {"Passed", "sub docs sent", "Sub Docs Sign"}

InitGate ==
    /\ \E lc \in LabelConfigs, min \in MinLabels,
          cur \in GateCurrentLabels, der \in GateDerivedLabels :
         gateIn = [currentLabel |-> cur, statusLabel |-> der, minLabel |-> min,
                   aliases |-> lc.aliases, options |-> lc.options]
    /\ gateOut = << >>
    /\ pc = "gate"
    /\ options = << >>
    /\ registry = [e \in Entities |-> 0]
    /\ cfg = [minLabel |-> DEFAULT_MIN_STATUS_LABEL, aliases |-> NoAliases, dry |-> FALSE]
    /\ records = << >>
    /\ labelToId = << >>
    /\ currentStatusById = [e \in Entities |-> ""]
    /\ idx = 1
    /\ pending = NoPending
    /\ results = << >>
    /\ writes = << >>
    /\ response = 0
    /\ startStatus = registry
    /\ firstRun = NoRun
    /\ req = PlainRequest
    /\ error = ""
    /\ external = 0
    /\ fnIn = NoFn
    /\ fnOut = << >>

gateApply(currentLabel) ==
    LET d == decide(currentLabel, gateIn.statusLabel, gateIn.minLabel,
                    gateIn.aliases, fetchStatusFieldAndOptions(gateIn.options))
    IN  [currentLabel |-> currentLabel, outcome |-> d.outcome, optionId |-> d.optionId]

GateDecide ==
    /\ pc = "gate"
    /\ gateOut = << >>
    /\ gateOut' = << gateApply(gateIn.currentLabel) >>
    /\ UNCHANGED << options, registry, cfg, records, pc, labelToId, currentStatusById,
                    idx, pending, results, writes, response, startStatus, firstRun,
                    gateIn, error, envVars, fnVars >>

GateRerun ==
    /\ pc = "gate"
    /\ Len(gateOut) = 1
    /\ gateOut[1].outcome = "Authorized"
    /\ \E cur \in GateCurrentLabels \cup {gateIn.statusLabel} :
         /\ toLowerCase(cur) = toLowerCase(gateIn.statusLabel)
         /\ gateOut' = Append(gateOut, gateApply(cur))
    /\ UNCHANGED << options, registry, cfg, records, pc, labelToId, currentStatusById,
                    idx, pending, results, writes, response, startStatus, firstRun,
                    gateIn, error, envVars, fnVars >>

NextGate == GateDecide \/ GateRerun

SpecGate == InitGate /\ [][NextGate]_vars

(***************************************************************************)
(* Functions taken alone.  The handler's variables rest; fnIn holds the    *)
(* function and its argument, fnOut the results of applying it.            *)
(***************************************************************************)
handlerAtRest ==
    /\ options = << >>
    /\ registry = [e \in Entities |-> 0]
    /\ cfg = [minLabel |-> DEFAULT_MIN_STATUS_LABEL, aliases |-> NoAliases, dry |-> FALSE]
    /\ records = << >>
    /\ pc = "fn"
    /\ labelToId = << >>
    /\ currentStatusById = [e \in Entities |-> ""]
    /\ idx = 1
    /\ pending = NoPending
    /\ results = << >>
    /\ writes = << >>
    /\ response = 0
    /\ startStatus = registry
    /\ firstRun = NoRun
    /\ gateIn = NoGate
    /\ gateOut = << >>
    /\ req = PlainRequest
    /\ error = ""
    /\ external = 0

handlerVars ==
    << options, registry, cfg, records, pc, labelToId, currentStatusById, idx,
       pending, results, writes, response, startStatus, firstRun, gateVars,
       req, error, external >>

\* the normalizers: applied to a name, and again to their own result
InitNormalize ==
    /\ handlerAtRest
    /\ fnIn \in [fn : {"normalizeOrgKey"}, arg : OrgNames]
                \cup [fn : {"normalizePersonKey"}, arg : PersonNames]
    /\ fnOut = << >>

normalizer(fn, x) ==
    IF fn = "normalizeOrgKey" THEN normalizeOrgKey(x) ELSE normalizePersonKey(x)

Normalize ==
    /\ pc = "fn"
    /\ fnIn.fn \in {"normalizeOrgKey", "normalizePersonKey"}
    /\ fnOut = << >>
    /\ fnOut' = << normalizer(fnIn.fn, fnIn.arg) >>
    /\ UNCHANGED << handlerVars, fnIn >>

NormalizeAgain ==
    /\ pc = "fn"
    /\ fnIn.fn \in {"normalizeOrgKey", "normalizePersonKey"}
    /\ Len(fnOut) = 1
    /\ fnOut' = Append(fnOut, normalizer(fnIn.fn, fnOut[1]))
    /\ UNCHANGED << handlerVars, fnIn >>

NextNormalize == Normalize \/ NormalizeAgain

SpecNormalize == InitNormalize /\ [][NextNormalize]_vars

\* personKeyVariants for a configured variant and for its canonical name,
\* each followed by the same last name
InitNick ==
    /\ handlerAtRest
    /\ \E custom \in NicknameConfigs :
         \E p \in nicknamePairs(loadNicknameAliases(NicknameDefaults, custom)),
            l \in LastNames \cup {"", "Jr."} :
            fnIn = [fn |-> "personKeyVariants", custom |-> custom,
                    canon |-> p.canon, variant |-> p.variant, last |-> l]
    /\ fnOut = << >>

Variants ==
    /\ pc = "fn"
    /\ fnIn.fn = "personKeyVariants"
    /\ fnOut = << >>
    /\ LET nicknames == loadNicknameAliases(NicknameDefaults, fnIn.custom)
       IN  fnOut' = << [ofVariant |-> personKeyVariants(fnIn.variant \o " " \o fnIn.last,
                                                        nicknames),
                        ofCanon   |-> personKeyVariants(fnIn.canon \o " " \o fnIn.last,
                                                        nicknames)] >>
    /\ UNCHANGED << handlerVars, fnIn >>

NextNick == Variants

SpecNick == InitNick /\ [][NextNick]_vars

\* deriveStatusLabelFromRow applied to a row
InitDerive ==
    /\ handlerAtRest
    /\ \E order \in ColumnOrders, overrides \in SubOverrides,
          sub \in SubTexts, granted \in GrantedTexts, detail \in DetailTexts,
          lastAccessed \in LastAccessedTexts, prospect \in ProspectTexts,
          latest \in LatestTexts :
         LET values == [k \in {"Subscription Status", "Data room granted",
                               "Data room last accessed", "Data room access detail",
                               "Prospect Status", "Latest update"} |->
                          IF k = "Subscription Status" THEN sub
                          ELSE IF k = "Data room granted" THEN granted
                          ELSE IF k = "Data room last accessed" THEN lastAccessed
                          ELSE IF k = "Data room access detail" THEN detail
                          ELSE IF k = "Prospect Status" THEN prospect
                          ELSE latest]
         IN  fnIn = [fn |-> "deriveStatusLabelFromRow", row |-> rowOf(order, values),
                     overrides |-> overrides, sub |-> sub, granted |-> granted,
                     detail |-> detail, lastAccessed |-> lastAccessed,
                     prospect |-> prospect, latest |-> latest]
    /\ fnOut = << >>

Derive ==
    /\ pc = "fn"
    /\ fnIn.fn = "deriveStatusLabelFromRow"
    /\ fnOut = << >>
    /\ fnOut' = << [label     |-> deriveStatusLabelFromRow(fnIn.row, fnIn.overrides),
                    detailRaw |-> dataRoomAccessDetailRaw(fnIn.row),
                    accessed  |-> accessedFromDetail(dataRoomAccessDetailRaw(fnIn.row))] >>
    /\ UNCHANGED << handlerVars, fnIn >>

NextDerive == Derive

SpecDerive == InitDerive /\ [][NextDerive]_vars

\* a row that carries hints and at most a data-room grant, derived and then
\* taken through the gate of the row loop for an entry holding currentLabel,
\* with the default MIN_STATUS_LABEL
InitHints ==
    /\ handlerAtRest
    /\ \E order \in ColumnOrders, lc \in LabelConfigs, dry \in BOOLEAN,
          cur \in {""} \cup { FullOptions[i] : i \in 1..Len(FullOptions) },
          granted \in GrantedTexts, prospect \in ProspectTexts, latest \in LatestTexts :
         LET values == [k \in {"Subscription Status", "Data room granted",
                               "Data room last accessed", "Data room access detail",
                               "Prospect Status", "Latest update"} |->
                          IF k = "Data room granted" THEN granted
                          ELSE IF k = "Prospect Status" THEN prospect
                          ELSE IF k = "Latest update" THEN latest
                          ELSE ""]
         IN  fnIn = [fn |-> "hints", row |-> rowOf(order, values),
                     granted |-> granted, prospect |-> prospect, latest |-> latest,
                     currentLabel |-> cur, aliases |-> lc.aliases,
                     options |-> lc.options, dry |-> dry]
    /\ fnOut = << >>

DeriveAndGate ==
    /\ pc = "fn"
    /\ fnIn.fn = "hints"
    /\ fnOut = << >>
    /\ LET statusLabel == deriveStatusLabelFromRow(fnIn.row, NoOverrides)
           d == decide(fnIn.currentLabel, statusLabel, DEFAULT_MIN_STATUS_LABEL,
                       fnIn.aliases, fetchStatusFieldAndOptions(fnIn.options))
       IN  fnOut' = << [statusLabel |-> statusLabel,
                        outcome |-> afterGate(d.outcome, fnIn.dry)] >>
    /\ UNCHANGED << handlerVars, fnIn >>

NextHints == DeriveAndGate

SpecHints == InitHints /\ [][NextHints]_vars

\* the matcher applied to one record over the entries of a list
InitMatch ==
    /\ handlerAtRest
    /\ fnIn \in [fn : {"matchRecord"}, entries : MatchRegistries, rec : MatchRecords]
    /\ fnOut = << >>

Match ==
    /\ pc = "fn"
    /\ fnIn.fn = "matchRecord"
    /\ fnOut = << >>
    /\ fnOut' = << matchRecord(fnIn.entries, loadNicknameAliases(NicknameDefaults, << >>),
                               fnIn.rec) >>
    /\ UNCHANGED << handlerVars, fnIn >>

NextMatch == Match

SpecMatch == InitMatch /\ [][NextMatch]_vars

\* the indexes built from the entries of a list
InitIndex ==
    /\ handlerAtRest
    /\ fnIn \in [fn : {"buildIndex"}, entries : MatchRegistries]
    /\ fnOut = << >>

BuildIndex ==
    /\ pc = "fn"
    /\ fnIn.fn = "buildIndex"
    /\ fnOut = << >>
    /\ fnOut' = << context(fnIn.entries, loadNicknameAliases(NicknameDefaults, << >>),
                           [orgCandidates |-> << >>, personCandidates |-> << >>]).ix >>
    /\ UNCHANGED << handlerVars, fnIn >>

NextIndex == BuildIndex

SpecIndex == InitIndex /\ [][NextIndex]_vars

(***************************************************************************)
(* Vocabulary of the properties.                                           *)
(***************************************************************************)
\* every label a row, an entry or the configuration can carry
KnownLabels == GateCurrentLabels \cup GateDerivedLabels \cup MinLabels

\* the labels in lower case, computed once
lowerOf == [l \in KnownLabels |-> toLowerCase(l)]

\* rank of a label in STATUS_ORDER, -1 when it has none
rankOf == [l \in KnownLabels |-> STATUS_INDEX(lowerOf[l])]
rank(label) == rankOf[label]

\* 'passed' or a synonym, case-insensitively after trimming
HardLockNames == {"passed", "declined", "no go", "no-go"}
HardLockLabels == { l \in KnownLabels : toLowerCase(trim(l)) \in HardLockNames }
hardLocked(label) == label \in HardLockLabels

\* the rows evaluated so far: the recorded results and the row whose
\* updateStatus call is in flight
inFlight ==
    IF pc = "write"
    THEN << [row |-> idx, entry |-> pending.entry,
             statusLabel |-> wantsRaw[idx].statusLabel,
             currentLabel |-> pending.currentLabel,
             outcome |-> "Write", optionId |-> pending.optionId] >>
    ELSE << >>

evaluated == results \o inFlight

Matched == { i \in 1..Len(evaluated) : evaluated[i].entry # NoEntry }

\* the handler called updateStatus for the row
CallsUpdate(r) == r.outcome \in {"Write", "Updated", "WriteFailed"}

(***************************************************************************)
(* C1  Non-downgrade at the gate: a matched row whose current and derived  *)
(* labels both have a rank and whose derived rank is lower never reaches   *)
(* updateStatus and is never reported wouldUpdate; when the current label  *)
(* is not hard-locked and the derived label is not below the minimum, the  *)
(* row's outcome is WouldDowngrade.                                        *)
(***************************************************************************)
C1_NonDowngradeAtGate ==
    \A i \in Matched :
        LET r == evaluated[i] IN
        (rank(r.currentLabel) # -1 /\ rank(r.statusLabel) # -1
            /\ rank(r.statusLabel) < rank(r.currentLabel))
        => /\ ~CallsUpdate(r)
           /\ r.outcome # "WouldUpdate"
           /\ (~hardLocked(r.currentLabel)
                 /\ ~(rank(cfg.minLabel) # -1 /\ rank(r.statusLabel) < rank(cfg.minLabel)))
              => r.outcome = "WouldDowngrade"

C1_Witness ==
    \E i \in Matched :
        /\ evaluated[i].currentLabel = "Sub Docs Sent"
        /\ evaluated[i].statusLabel = "Invited to Data Room"
        /\ evaluated[i].outcome = "WouldDowngrade"

(***************************************************************************)
(* C2  Hard lock at the gate: a matched row whose current label is         *)
(* 'passed' or a synonym (case-insensitively, after trimming) ends         *)
(* HardLocked whatever its derived label, undetermined included, and       *)
(* updateStatus is never called for it.                                    *)
(***************************************************************************)
C2_HardLockAtGate ==
    \A i \in Matched :
        hardLocked(evaluated[i].currentLabel)
        => evaluated[i].outcome = "HardLocked" /\ ~CallsUpdate(evaluated[i])

C2_Witness ==
    /\ \E i \in Matched :
        /\ evaluated[i].currentLabel = "Passed"
        /\ evaluated[i].statusLabel = "Sub Docs Signed"
        /\ evaluated[i].outcome = "HardLocked"
    /\ \E i \in Matched :
        /\ evaluated[i].currentLabel = "No-Go "
        /\ evaluated[i].statusLabel = ""
        /\ evaluated[i].outcome = "HardLocked"

(***************************************************************************)
(* C3  Within one upload the stage ranks written to an entity never        *)
(* decrease and never fall below the rank the entity had when the request  *)
(* started, also when several rows resolve to the same entity.  Stated     *)
(* for the writes the registry accepted, in a deployment without aliases   *)
(* whose registry holds every stage, so that every option written is the   *)
(* option of the derived label.                                            *)
(***************************************************************************)
writtenRank(w) == rank(optionText(options, w.optionId))

C3_WrittenRanksNeverDecrease ==
    (cfg.aliases = NoAliases /\ options = FullOptions)
    => \A k \in 1..Len(writes) :
          writes[k].ok
          => /\ writtenRank(writes[k])
                  >= rank(optionText(options, startStatus[writes[k].entry]))
             /\ \A j \in 1..(k - 1) :
                   (writes[j].ok /\ writes[j].entry = writes[k].entry)
                   => writtenRank(writes[j]) <= writtenRank(writes[k])

(***************************************************************************)
(* C4  Label resolution fails closed: whenever updateStatus is called the  *)
(* option written is the option of the derived label itself, so it never   *)
(* ranks below the entry's current label, and a derived label without an   *)
(* option of its own ends UnknownLabel.                                    *)
(***************************************************************************)
C4_ResolutionFailsClosed ==
    \A i \in Matched :
        LET r       == evaluated[i]
            written == optionText(options, r.optionId)
        IN  /\ CallsUpdate(r)
               => /\ lowerOf[written] = lowerOf[r.statusLabel]
                  /\ ~(rank(written) # -1 /\ rank(r.currentLabel) # -1
                        /\ rank(written) < rank(r.currentLabel))
            /\ (r.outcome \in {"Write", "Updated", "WriteFailed", "WouldUpdate", "UnknownLabel"}
                  /\ ~mapHas(labelToId, lowerOf[r.statusLabel]))
               => r.outcome = "UnknownLabel"

(***************************************************************************)
(* C5  Minimum threshold.  As claimed, for every MIN_STATUS_LABEL: a       *)
(* matched, not hard-locked row whose derived label is undetermined or     *)
(* ranks below MIN_STATUS_LABEL ends BelowThreshold and never reaches      *)
(* updateStatus.                                                           *)
(***************************************************************************)
C5_ThresholdForEveryMinLabel ==
    \A i \in Matched :
        LET r == evaluated[i] IN
        (~hardLocked(r.currentLabel)
            /\ (r.statusLabel = "" \/ rank(r.statusLabel) < rank(cfg.minLabel)))
        => r.outcome = "BelowThreshold" /\ ~CallsUpdate(r)

(***************************************************************************)
(* C5 as amended: when MIN_STATUS_LABEL names a stage of STATUS_ORDER      *)
(* (case-insensitively), a matched, not hard-locked row whose derived      *)
(* label is undetermined or ranks below it ends BelowThreshold; when it    *)
(* names no stage there is no threshold, and an undetermined derived label *)
(* ends 'Could not derive status'.  In both cases updateStatus is not      *)
(* called for such a row.                                                  *)
(***************************************************************************)
C5_ThresholdWhenMinIsAStage ==
    \A i \in Matched :
        LET r == evaluated[i] IN
        ~hardLocked(r.currentLabel)
        => /\ (rank(cfg.minLabel) # -1
                 /\ (r.statusLabel = "" \/ rank(r.statusLabel) < rank(cfg.minLabel)))
              => r.outcome = "BelowThreshold"
           /\ (rank(cfg.minLabel) = -1 /\ r.statusLabel = "")
              => r.outcome = "Underived"
           /\ (r.statusLabel = ""
                 \/ (rank(cfg.minLabel) # -1 /\ rank(r.statusLabel) < rank(cfg.minLabel)))
              => ~CallsUpdate(r) /\ r.outcome # "WouldUpdate"

C5_Witness ==
    /\ cfg.minLabel = "sub docs signed"
    /\ \E i \in Matched :
        /\ evaluated[i].statusLabel = "Sub Docs Sent"
        /\ evaluated[i].outcome = "BelowThreshold"
    /\ \E i \in Matched :
        /\ evaluated[i].statusLabel = ""
        /\ ~hardLocked(evaluated[i].currentLabel)
        /\ evaluated[i].outcome = "BelowThreshold"

(***************************************************************************)
(* C6  The gate takes its checks in the order HardLocked, BelowThreshold,  *)
(* WouldDowngrade, Unchanged, label resolution; the first check that       *)
(* applies decides the row.                                                *)
(***************************************************************************)
C6_GateOrder ==
    \A i \in Matched :
        LET r    == evaluated[i]
            cur  == rank(r.currentLabel)
            der  == rank(r.statusLabel)
            min  == rank(cfg.minLabel)
            same == r.currentLabel # ""
                    /\ lowerOf[r.currentLabel] = lowerOf[r.statusLabel]
        IN  IF hardLocked(r.currentLabel) THEN r.outcome = "HardLocked"
            ELSE IF min # -1 /\ der < min THEN r.outcome = "BelowThreshold"
            ELSE IF cur # -1 /\ der # -1 /\ der < cur THEN r.outcome = "WouldDowngrade"
            ELSE IF same THEN r.outcome = "Unchanged"
            ELSE r.outcome \in {"Underived", "UnknownLabel", "WouldUpdate",
                                "Write", "Updated", "WriteFailed"}

C6_Witness ==
    /\ \E i \in Matched :
        /\ hardLocked(evaluated[i].currentLabel)
        /\ evaluated[i].statusLabel = ""
        /\ evaluated[i].outcome = "HardLocked"
    /\ \E i \in Matched :
        /\ evaluated[i].currentLabel = "Sub Docs Sent"
        /\ evaluated[i].statusLabel = "Sub Docs Sent"
        /\ evaluated[i].outcome = "BelowThreshold"

(***************************************************************************)
(* C9  Dry run: with dry=1 updateStatus is never called, and a row is      *)
(* reported wouldUpdate exactly when the same row would reach the write    *)
(* call in a run that is not dry: it passes every check of the gate and    *)
(* its label resolves to an option.                                        *)
(***************************************************************************)
wouldReachWrite(r) ==
    /\ ~hardLocked(r.currentLabel)
    /\ ~(rank(cfg.minLabel) # -1 /\ rank(r.statusLabel) < rank(cfg.minLabel))
    /\ ~(rank(r.currentLabel) # -1 /\ rank(r.statusLabel) # -1
           /\ rank(r.statusLabel) < rank(r.currentLabel))
    /\ ~(r.currentLabel # "" /\ lowerOf[r.currentLabel] = lowerOf[r.statusLabel])
    /\ resolveStatusOptionId(r.statusLabel, labelToId, cfg.aliases) # 0

C9_DryRunWritesNothing ==
    cfg.dry
    => /\ writes = << >>
       /\ pc # "write"
       /\ registry = startStatus
       /\ \A i \in 1..Len(results) :
            (results[i].outcome = "WouldUpdate")
            <=> (results[i].entry # NoEntry /\ wouldReachWrite(results[i]))

C9_Witness ==
    /\ cfg.dry
    /\ response = 200
    /\ \E i \in Matched : evaluated[i].outcome = "WouldUpdate"
    /\ \E i \in Matched : evaluated[i].outcome = "WouldDowngrade"

(***************************************************************************)
(* C10  updateStatus is attempted at most once per row and never retried;  *)
(* a failed write is recorded on its row (updated = false, the error),     *)
(* the rows after it are still processed, and the response is 200 with     *)
(* exactly one result per record that carried a name.                      *)
(***************************************************************************)
C10_WriteOncePartialFailure ==
    /\ \A i \in 1..Len(wantsRaw) :
          Cardinality({k \in 1..Len(writes) : writes[k].row = i}) <= 1
    /\ \A k \in 1..Len(writes) :
          ~writes[k].ok
          => /\ \E j \in 1..Len(results) :
                   /\ results[j].row = writes[k].row
                   /\ results[j].outcome = "WriteFailed"
             /\ pc = "done" => response = 200
    /\ response = 200
       => /\ Len(results) = Len(wantsRaw)
          /\ \A i \in 1..Len(results) : results[i].row = i

C10_Witness ==
    /\ response = 200
    /\ Len(results) = Len(wantsRaw)
    /\ \E k \in 1..Len(writes) : ~writes[k].ok /\ writes[k].row < Len(wantsRaw)

(***************************************************************************)
(* C7  Gate idempotence, as claimed: whenever the gate authorizes a        *)
(* write, the gate re-run with the current label equal to the derived      *)
(* label (case-insensitively) and the same configuration returns           *)
(* Unchanged.                                                              *)
(***************************************************************************)
C7_RerunUnchanged ==
    Len(gateOut) = 2 => gateOut[2].outcome = "Unchanged"

(***************************************************************************)
(* C7 as amended: the re-run returns Unchanged, unless the derived label   *)
(* is itself a hard-lock label ('passed' or a synonym, which passes the    *)
(* gate only when MIN_STATUS_LABEL names no stage); the re-run then        *)
(* returns HardLocked.  In neither case does the re-run authorize a write. *)
(***************************************************************************)
C7_RerunUnchangedOrLocked ==
    Len(gateOut) = 2
    => gateOut[2].outcome =
          (IF hardLocked(gateIn.statusLabel) THEN "HardLocked" ELSE "Unchanged")

C7_Witness ==
    /\ Len(gateOut) = 2
    /\ gateOut[1].outcome = "Authorized"
    /\ gateOut[2].currentLabel # gateIn.statusLabel
    /\ gateOut[2].outcome = "Unchanged"

(***************************************************************************)
(* C8  Run-level idempotence: if a run wrote option O for a row and the    *)
(* registry reports O as that entity's status when the same file is        *)
(* uploaded again, the second run reports the row Unchanged and issues no  *)
(* write for it, whichever resolution path chose O.                        *)
(***************************************************************************)
C8_SecondRunUnchanged ==
    firstRun.ran
    => \A i \in 1..Len(evaluated) :
          (firstRun.results[i].outcome = "Updated"
              /\ startStatus[firstRun.results[i].entry] = firstRun.results[i].optionId)
          => evaluated[i].outcome = "Unchanged"

(***************************************************************************)
(* C11  A fatal error (AFFINITY_V2_TOKEN missing, the status field not     *)
(* found, a failed read of the fields or of the entries) ends the request  *)
(* with one top-level error response, status 500 and no per-row results,   *)
(* and updateStatus has not been called at any point of that request.      *)
(***************************************************************************)
FatalErrors ==
    {"Missing AFFINITY_V2_TOKEN", "Could not find Status field on this list",
     "read failed"}

C11_FatalAbortsWithoutWrites ==
    /\ (req.method = "POST" /\ ~req.token /\ pc # "enter")
       => error = "Missing AFFINITY_V2_TOKEN"
    /\ error \in FatalErrors
       => /\ pc = "done" /\ response = 500
          /\ results = << >> /\ writes = << >> /\ pending = NoPending
          /\ registry = startStatus
    /\ (writes # << >> \/ pc = "write") => (error = "" /\ req.token)

\* the entries read fails after the fields were read, for a file whose row
\* the gate would have let through
C11_Witness ==
    /\ error = "read failed"
    /\ labelToId # << >>
    /\ response = 500
    /\ ~cfg.dry
    /\ \E i \in 1..Len(wantsRaw) :
          /\ wantsRaw[i].entry = "e1"
          /\ wantsRaw[i].statusLabel = "Sub Docs Signed"
          /\ registry["e1"] = 0

(***************************************************************************)
(* C12  With CSV_SYNC_API_KEY set, a request gets past authorization only  *)
(* if it presents that key (x-api-key header or Bearer token) or Basic     *)
(* credentials equal to BASIC_AUTH_USER / BASIC_AUTH_PASS, the latter only *)
(* when both are set; an unauthorized request gets 401 before any call to  *)
(* the registry.                                                           *)
(***************************************************************************)
\* what each Authorization header of the model presents
BearerOf ==
    [a \in Authorizations |->
        IF a \in {"Bearer k1", "Bearer  k1 "} THEN "k1"
        ELSE IF a = "Bearer k2" THEN "k2" ELSE ""]

BasicOf ==
    [a \in Authorizations |->
        IF a = "Basic dTE6cHcx" THEN << "u1", "pw1" >>
        ELSE IF a = "Basic eDp5" THEN << "x", "y" >>
        ELSE IF a = "Basic dTE6YmFk" THEN << "u1", "bad" >>
        ELSE IF a = "Basic dTE6" THEN << "u1", "" >>
        ELSE IF a = "Basic dTE=" THEN << "u1" >>
        ELSE << >>]

presentsKey ==
    \/ req.hdrKey = req.apiKey
    \/ BearerOf[req.authorization] = req.apiKey

presentsBasic ==
    /\ req.basicUser # "" /\ req.basicPass # ""
    /\ BasicOf[req.authorization] = << req.basicUser, req.basicPass >>

pastAuthorization ==
    pc # "enter" /\ error \notin {"Use POST", "Missing AFFINITY_V2_TOKEN", "Unauthorized"}

C12_AuthorizedOnlyWithCredentials ==
    /\ (req.apiKey # "" /\ pastAuthorization) => (presentsKey \/ presentsBasic)
    /\ error = "Unauthorized"
       => /\ response = 401 /\ pc = "done"
          /\ labelToId = << >> /\ results = << >> /\ writes = << >>

(***************************************************************************)
(* C19  Every write is consistent with the registry at the moment it is    *)
(* issued, whatever others change meanwhile: the entity's stored status    *)
(* at that moment is not hard-locked, and the stage written does not rank  *)
(* below it.  Stated for a deployment without aliases whose registry holds *)
(* every stage, so that the option written is the derived label's own.     *)
(***************************************************************************)
C19_WriteConsistentAtWriteTime ==
    [][ (Len(writes') > Len(writes) /\ cfg.aliases = NoAliases
            /\ options = FullOptions)
        => LET w      == writes'[Len(writes')]
               stored == registryText(w.entry)
           IN  /\ ~hardLocked(stored)
               /\ ~(rank(stored) # -1 /\ writtenRank(w) # -1
                      /\ writtenRank(w) < rank(stored)) ]_vars

(***************************************************************************)
(* C15  Normalization is idempotent: normalizeOrgKey and normalizePersonKey*)
(* applied to their own result return it unchanged, for every name, names  *)
(* ending in several legal-suffix words included.                          *)
(***************************************************************************)
C15_NormalizersIdempotent ==
    (fnIn.fn \in {"normalizeOrgKey", "normalizePersonKey"} /\ Len(fnOut) = 2)
    => fnOut[2] = fnOut[1]

(***************************************************************************)
(* C16  Nickname symmetry: for every canonical first name c, every variant *)
(* v configured for c (the defaults and NICKNAME_ALIASES_JSON) and every   *)
(* last name L, personKeyVariants('v L') and personKeyVariants('c L')      *)
(* share a key.                                                            *)
(***************************************************************************)
C16_NicknameSymmetry ==
    (fnIn.fn = "personKeyVariants" /\ fnOut # << >>)
    => Range(fnOut[1].ofVariant) \cap Range(fnOut[1].ofCanon) # {}

(***************************************************************************)
(* C17  Status derivation is prioritized, first match wins: when no        *)
(* override entry matches, a subscription text of the signed / executed /  *)
(* countersigned family gives 'Sub Docs Signed' whatever the data-room and *)
(* hint columns hold; any subscription match wins over data-room evidence, *)
(* and data-room evidence wins over the prospect-status and latest-update  *)
(* hints.                                                                  *)
(***************************************************************************)
\* what each subscription text of the rows calls for
SubscriptionStageOf ==
    [t \in SubTexts |->
        IF t = "Countersigned by all parties" THEN "Sub Docs Signed"
        ELSE IF t = "Awaiting investor signature" THEN "Ready for Sub Docs"
        ELSE IF t = "Started" THEN "Sub Docs Sent"
        ELSE ""]

dataRoomEvidence ==
    \/ fnIn.detail = "PPM: Aug 19, 2025; LPA: not yet accessed"
    \/ fnIn.lastAccessed = "Aug 19, 2025"
    \/ fnIn.granted = "Yes"

overrideMatches ==
    fnIn.overrides # NoOverrides /\ fnIn.sub = "Countersigned by all parties"

C17_DerivationPriority ==
    (fnIn.fn = "deriveStatusLabelFromRow" /\ fnOut # << >> /\ ~overrideMatches)
    => IF SubscriptionStageOf[fnIn.sub] # ""
       THEN fnOut[1].label = SubscriptionStageOf[fnIn.sub]
       ELSE dataRoomEvidence
            => fnOut[1].label \in {"Data Room Accessed / NDA Executed",
                                   "Invited to Data Room"}

C17_Witness ==
    /\ fnIn.fn = "deriveStatusLabelFromRow"
    /\ fnOut # << >>
    /\ fnIn.overrides = NoOverrides
    /\ fnIn.sub = "Countersigned by all parties"
    /\ fnIn.detail = "PPM: Aug 19, 2025; LPA: not yet accessed"
    /\ fnIn.lastAccessed = "Aug 19, 2025"
    /\ fnIn.granted = "Yes"
    /\ fnIn.latest = "PPM sent"
    /\ fnOut[1].label = "Sub Docs Signed"

(***************************************************************************)
(* C18  The data-room detail rule returns the accessed stage only if some  *)
(* semicolon-separated segment of the text it is given is not 'not yet     *)
(* accessed' and holds a digit or a month name (as a word of the segment). *)
(***************************************************************************)
MonthNames ==
    {"jan", "january", "feb", "february", "mar", "march", "apr", "april", "may",
     "jun", "june", "jul", "july", "aug", "august", "sep", "sept", "september",
     "oct", "october", "nov", "november", "dec", "december"}

dateLike(segment) ==
    LET words == split(normalizeName(segment), " ")
    IN  \/ \E i \in 1..Len(segment) : charAt(segment, i) \in Range(split("0,1,2,3,4,5,6,7,8,9", ","))
        \/ \E i \in 1..Len(words) : words[i] \in MonthNames

C18_AccessedOnlyIfDateLikeSegment ==
    (fnIn.fn = "deriveStatusLabelFromRow" /\ fnOut # << >> /\ fnOut[1].accessed)
    => \E segment \in Range(split(fnOut[1].detailRaw, ";")) :
          /\ toLowerCase(trim(segment)) # "not yet accessed"
          /\ dateLike(segment)

\* the record the matcher was applied to, and what it selected
matched == fnIn.fn = "matchRecord" /\ Len(fnOut) = 1

acmeOnly == << entity("organization", "", "", "Acme", << >>, << >>) >>

\* C13: the row whose only candidate is the organization 'Acme Capital, LLC',
\* against a registry whose only entity is the organization 'Acme' with no
\* associated names, resolves to that entity as an organization with score
\* 1.0 through the type-only fallback.
C13_AcmeCapitalResolvesToAcme ==
    ( /\ matched
      /\ fnIn.entries = acmeOnly
      /\ fnIn.rec = [orgCandidates |-> << "Acme Capital, LLC" >>, personCandidates |-> << >>] )
    => /\ fnOut[1].assoc.entry = 0
       /\ fnOut[1].best.entry = 1
       /\ fnOut[1].best.type = "organization"
       /\ fnOut[1].best.score = One

\* the keys of the names offered to the matcher, written out
OrgKeyOf(name) ==
    CASE name = "Acme" -> "acme"
      [] name = "Acme, LLC" -> "acme"
      [] name = "Acme Capital, LLC" -> "acme capital"
      [] name = "Bental Group" -> "bental group"
      [] name = "Bental Group Inc" -> "bental group"
      [] name = "Bental Groups" -> "bental groups"
      [] name = "Other Fund" -> "other fund"
      [] name \in {"LLC", "...", "Capital"} -> ""

PersonKeyOf(name) ==
    CASE name = "Matt Lee" -> "matt lee"
      [] name = "Matthew Lee" -> "matthew lee"
      [] name = "Jr." -> ""

VariantsOf(name) ==
    CASE name \in {"Matt Lee", "Matthew Lee"} -> {"matt lee", "matthew lee"}
      [] name = "Jr." -> {}

\* entry e is the first organization of the registry under the key of an
\* organization candidate of the row, and a nickname variant of a person
\* candidate is the key of one of its associated people
pairHit(entries, rec, e) ==
    /\ entries[e].type = "organization"
    /\ \E i \in 1..Len(rec.orgCandidates) :
          /\ OrgKeyOf(rec.orgCandidates[i]) = OrgKeyOf(entries[e].name)
          /\ \A h \in 1..(e - 1) :
                entries[h].type \in {"person", "contact"}
                \/ OrgKeyOf(entries[h].name) # OrgKeyOf(entries[e].name)
    /\ \E n \in 1..Len(rec.personCandidates), a \in 1..Len(entries[e].people) :
          PersonKeyOf(entries[e].people[a]) \in VariantsOf(rec.personCandidates[n])

\* C14: an organization candidate with an exact key hit and a person
\* candidate one of whose nickname variants is the key of an associated
\* person of that organization resolve in pair path A to the organization
\* with score 1.0, as the row 'Bental Group' / 'Matt Lee' does against
\* 'Bental Group Inc' with associated 'Matthew Lee'.
C14_PairValidationScoresOne ==
    matched =>
        \A e \in 1..Len(fnIn.entries) :
            pairHit(fnIn.entries, fnIn.rec, e) =>
                /\ fnOut[1].pairA.score = One
                /\ fnOut[1].pairA.type = "organization"
                /\ pairHit(fnIn.entries, fnIn.rec, fnOut[1].pairA.entry)
                /\ fnOut[1].best = fnOut[1].pairA

C14_Witness ==
    /\ matched
    /\ fnIn.entries = << entity("organization", "", "", "Bental Group Inc",
                                << "Matthew Lee" >>, << >>) >>
    /\ fnIn.rec = [orgCandidates |-> << "Bental Group" >>,
                   personCandidates |-> << "Matt Lee" >>]
    /\ fnOut[1].best = [entry |-> 1, type |-> "organization", score |-> One,
                        name |-> "Bental Group"]

\* C20: a row all of whose candidates have the empty key resolves to no
\* entry, whatever the registry holds.
C20_EmptyKeyMatchesNothing ==
    ( /\ matched
      /\ \A i \in 1..Len(fnIn.rec.orgCandidates) : OrgKeyOf(fnIn.rec.orgCandidates[i]) = ""
      /\ \A n \in 1..Len(fnIn.rec.personCandidates) :
            PersonKeyOf(fnIn.rec.personCandidates[n]) = "" )
    => fnOut[1].best.entry = 0

\* the indexes built, and the entities they were built from
indexed == fnIn.fn = "buildIndex" /\ Len(fnOut) = 1

isPersonEntity(ent) == ent.type \in {"person", "contact"}

displayNameOf(ent) ==
    IF isPersonEntity(ent)
    THEN (IF ent.first_name = "Matt" THEN "Matt Lee" ELSE "Matthew Lee")
    ELSE ent.name

\* entry i is a value of the map
valueOf(m, i) == \E k \in 1..Len(m) : m[k].val = i

\* entry i is listed under the key in the list-valued map
listedUnder(m, key, i) ==
    \E k \in 1..Len(m) : m[k].key = key /\ \E j \in 1..Len(m[k].val) : m[k].val[j] = i

\* the association set of an entry: the names of its fields and its own
peopleOf(ent) ==
    { ent.people[a] : a \in 1..Len(ent.people) }
    \cup (IF isPersonEntity(ent) THEN { displayNameOf(ent) } ELSE {})

orgsOf(ent) ==
    { ent.orgs[a] : a \in 1..Len(ent.orgs) }
    \cup (IF isPersonEntity(ent) THEN {} ELSE { ent.name })

\* entry i is listed in the association indexes under every key of its
\* association set
associationsIndexed(entries, ix, i) ==
    /\ \A a \in peopleOf(entries[i]) : \A v \in VariantsOf(a) :
          listedUnder(ix.personAssocKeyToEntries, v, i)
    /\ \A a \in orgsOf(entries[i]) :
          listedUnder(ix.orgAssocKeyToEntries, OrgKeyOf(a), i)

\* an earlier entry of the same role holds every key of entry i
shadowed(entries, i) ==
    IF isPersonEntity(entries[i])
    THEN \A v \in VariantsOf(displayNameOf(entries[i])) :
            \E h \in 1..(i - 1) :
               isPersonEntity(entries[h]) /\ v \in VariantsOf(displayNameOf(entries[h]))
    ELSE \E h \in 1..(i - 1) :
            ~isPersonEntity(entries[h])
            /\ OrgKeyOf(entries[h].name) = OrgKeyOf(entries[i].name)

\* C21 as stated: every entity with a non-empty display name is a value of
\* exactly one of the two direct maps, the one of its role, and is listed in
\* the association indexes under every key of its association set.
C21_EveryEntityInOneDirectMap ==
    indexed =>
        \A i \in 1..Len(fnIn.entries) :
            displayNameOf(fnIn.entries[i]) # "" =>
                /\ valueOf(fnOut[1].orgKeyToEntry, i) = ~isPersonEntity(fnIn.entries[i])
                /\ valueOf(fnOut[1].personKeyToEntry, i) = isPersonEntity(fnIn.entries[i])
                /\ associationsIndexed(fnIn.entries, fnOut[1], i)

\* C21 amended: an entity is a value of no direct map but the one of its
\* role, and of that one exactly when no earlier entity of its role holds
\* all its keys; it is listed in the association indexes under every key of
\* its association set.
C21_FirstWriterInOneDirectMap ==
    indexed =>
        \A i \in 1..Len(fnIn.entries) :
            displayNameOf(fnIn.entries[i]) # "" =>
                /\ valueOf(fnOut[1].orgKeyToEntry, i)
                      = (~isPersonEntity(fnIn.entries[i]) /\ ~shadowed(fnIn.entries, i))
                /\ valueOf(fnOut[1].personKeyToEntry, i)
                      = (isPersonEntity(fnIn.entries[i]) /\ ~shadowed(fnIn.entries, i))
                /\ associationsIndexed(fnIn.entries, fnOut[1], i)

C21_Witness ==
    /\ indexed
    /\ Len(fnIn.entries) = 2
    /\ fnIn.entries[1].name = "Acme"
    /\ fnIn.entries[2].name = "Acme, LLC"
    /\ valueOf(fnOut[1].orgKeyToEntry, 1)
    /\ ~valueOf(fnOut[1].orgKeyToEntry, 2)
    /\ listedUnder(fnOut[1].orgAssocKeyToEntries, "acme", 2)

higher(a, b) == a.num * b.den > b.num * a.den

\* C22: during the evaluation of a row best is replaced only by a candidate
\* of strictly higher score, so that its score never decreases and a tie
\* keeps the earlier candidate; best.entry is non-null exactly when
\* best.score > 0; the two fallbacks leave best alone once an entry is
\* selected; with no match the result is no entry at score 0.
C22_BestIsMonotonic ==
    matched =>
        LET out == fnOut[1]
        IN  /\ \A j \in 1..(Len(out.steps) - 1) :
                  out.steps[j + 1] = out.steps[j]
                  \/ higher(out.steps[j + 1].score, out.steps[j].score)
            /\ \A j \in 1..Len(out.steps) :
                  (out.steps[j].entry # 0) = higher(out.steps[j].score, [num |-> 0, den |-> 1])
            /\ out.steps[Len(out.steps)] = out.best
            /\ out.pairB.entry # 0 => out.assoc = out.pairB /\ out.best = out.pairB
            /\ out.assoc.entry # 0 => out.best = out.assoc
            /\ out.best.entry = 0 =>
                  out.best = [entry |-> 0, type |-> "", score |-> [num |-> 0, den |-> 1],
                              name |-> ""]

\* a candidate raised best over an earlier one, and in another row a
\* candidate of equal score left the earlier one in place
C22_Witness ==
    /\ matched
    /\ \/ /\ fnIn.rec.orgCandidates = << "Bental Groups", "Bental Group" >>
          /\ \E j \in 2..(Len(fnOut[1].steps) - 1) :
                /\ fnOut[1].steps[j].entry # 0
                /\ higher(fnOut[1].steps[j + 1].score, fnOut[1].steps[j].score)
                /\ fnOut[1].steps[j + 1].name = "Bental Group"
       \/ /\ fnIn.rec.orgCandidates = << "Acme", "Acme, LLC" >>
          /\ fnOut[1].assoc.entry = 0
          /\ fnOut[1].best.score = [num |-> 1, den |-> 1]
          /\ fnOut[1].best.name = "Acme"

\* what the latest-update texts of the rows call for when no other column
\* speaks
LatestStageOf ==
    [t \in LatestTexts |->
        IF t = "PPM sent" THEN "Deck & PPM Sent"
        ELSE IF t = "Intro call" THEN "Intro/First Meeting"
        ELSE ""]

\* C23: for a row with no subscription and no data-room signal and a
\* soft-circled prospect status, the derivation returns the stage of the
\* latest-update rule that fires, and is undetermined only if none fires.
C23_SoftCircledDoesNotBlock ==
    ( /\ fnIn.fn = "deriveStatusLabelFromRow"
      /\ fnOut # << >>
      /\ fnIn.sub = "" /\ fnIn.granted = "" /\ fnIn.detail = "" /\ fnIn.lastAccessed = ""
      /\ fnIn.prospect = "Soft circled" )
    => fnOut[1].label = LatestStageOf[fnIn.latest]

\* the stages a hint can name, and what the hint columns of the rows call for
HintStages ==
    {"Target Identified", "Intro/First Meeting", "Early Dialogue (Post-Intro)",
     "Deck & PPM Sent"}

hinted == fnIn.fn = "hints" /\ Len(fnOut) = 1

\* C24: a label that comes from the 'Prospect Status' / 'Latest update'
\* hints alone is one of the four earliest stages, each strictly below
\* 'Invited to Data Room', and with the default minimum the row ends
\* BelowThreshold, or HardLocked: updateStatus is not called for it.
C24_HintsNeverWrite ==
    (hinted /\ fnIn.granted = "") =>
        /\ fnOut[1].statusLabel \in HintStages \cup {""}
        /\ fnOut[1].statusLabel # "" =>
              rank(fnOut[1].statusLabel) < rank("Invited to Data Room")
        /\ fnOut[1].outcome \in {"BelowThreshold", "HardLocked"}

C24_Witness ==
    /\ hinted
    /\ fnIn.granted = ""
    /\ fnIn.latest = "PPM sent"
    /\ fnIn.prospect = "New"
    /\ fnIn.currentLabel = "Target Identified"
    /\ fnOut[1].statusLabel = "Deck & PPM Sent"
    /\ fnOut[1].outcome = "BelowThreshold"

====
